---------------------------- MODULE Spec2Model ----------------------------
(***************************************************************************)
(* Motion-Index: the document indexing engine, the query builder and the   *)
(* court-name normaliser (src/API/src/handlers/elasticsearch_handler.py,   *)
(* src/API/src/utils/text_normalizer.py, src/API/src/models, and the two   *)
(* HTTP entry points src/API/server.py and src/API/api/index.py).          *)
(*                                                                         *)
(* The search cluster is the environment.  What the handler relies on is   *)
(* modelled as the cluster documents it: an index call with an id replaces *)
(* the stored source under that id, an index call without an id stores     *)
(* under a fresh generated id, an update call merges the partial document  *)
(* into the stored source and fails on a missing id, a bool query returns  *)
(* the documents matching every must and filter clause, scored by the sum  *)
(* of the must clauses.                                                    *)
(***************************************************************************)
EXTENDS Integers, Sequences, FiniteSets, TLC

(***************************************************************************)
(* Strings.  TLC cannot look inside a string, so a court or judge name is  *)
(* a sequence of tokens: a word (its letters in lower case, w, and its     *)
(* casing k: "U" all upper, "L" all lower, "T" first letter upper) or one  *)
(* punctuation character (k = "P"; a space is the token " ").              *)
(***************************************************************************)
Punct == {" ", ","}

Str(ws, k) == [i \in DOMAIN ws |-> [w |-> ws[i], k |-> IF ws[i] \in Punct THEN "P" ELSE k]]

\* Python's None where a string is expected
None == <<[w |-> "None", k |-> "N"]>>

IsSpace(t) == t.w = " "

\* str.strip(): leading and trailing whitespace removed
RECURSIVE LStrip(_)
LStrip(s) == IF s # <<>> /\ IsSpace(Head(s)) THEN LStrip(Tail(s)) ELSE s

RECURSIVE RStrip(_)
RStrip(s) == IF s # <<>> /\ IsSpace(s[Len(s)]) THEN RStrip(SubSeq(s, 1, Len(s) - 1)) ELSE s

Strip(s) == RStrip(LStrip(s))

\* str.title(): every word gets an upper-case first letter and lower-case rest
Title(s) == [i \in DOMAIN s |-> [w |-> s[i].w, k |-> IF s[i].k = "P" THEN "P" ELSE "T"]]

\* the words of a string, casing dropped (what re.IGNORECASE compares)
Words(s) == [i \in DOMAIN s |-> s[i].w]

\* pattern literal lit matches s at position i, ignoring case
MatchAt(s, i, lit) ==
    /\ i >= 1
    /\ i + Len(lit) - 1 <= Len(s)
    /\ \A j \in 1..Len(lit) : s[i + j - 1].w = lit[j]

\* the alternatives of a pattern with optional parts, matching s at i
AltsAt(s, i, alts) == {a \in alts : MatchAt(s, i, a)}

\* leftmost position where one of the alternatives matches and at least
\* `more` tokens follow the match (the trailing group (.+) needs one); 0 if none
FirstMatch(s, alts, more) ==
    LET ps == {i \in 1..Len(s) : \E a \in alts : MatchAt(s, i, a) /\ i + Len(a) - 1 + more <= Len(s)}
    IN  IF ps = {} THEN 0 ELSE CHOOSE i \in ps : \A j \in ps : i <= j

\* the alternative matched at position i (the tokens that follow decide it)
AltAt(s, i, alts, more) ==
    CHOOSE a \in alts : MatchAt(s, i, a) /\ i + Len(a) - 1 + more <= Len(s)

\* re.sub(pattern + "(.+)", replacement + group, s): the group runs to the end
SubTail(s, alts, repl) ==
    LET i == FirstMatch(s, alts, 1)
    IN  IF i = 0 THEN s
        ELSE LET a == AltAt(s, i, alts, 1)
             IN  SubSeq(s, 1, i - 1) \o repl \o SubSeq(s, i + Len(a), Len(s))

\* re.sub(pattern, replacement, s) for a pattern with no group: every match
RECURSIVE SubAll(_, _, _)
SubAll(s, alts, repl) ==
    LET i == FirstMatch(s, alts, 0)
    IN  IF i = 0 THEN s
        ELSE LET a == AltAt(s, i, alts, 0)
             IN  SubSeq(s, 1, i - 1) \o repl \o SubAll(SubSeq(s, i + Len(a), Len(s)), alts, repl)

\* words joined by single spaces; a comma attaches to the word before it
RECURSIVE Spaced(_)
Spaced(ws) ==
    IF ws = <<>> THEN <<>>
    ELSE IF Len(ws) = 1 THEN ws
    ELSE LET init == Spaced(SubSeq(ws, 1, Len(ws) - 1))
             last == ws[Len(ws)]
         IN  IF last = "," THEN Append(init, last) ELSE init \o <<" ", last>>

\* a literal of the source: title-cased words, the words in `lower` in lower case
Cased(ws, lower) ==
    LET sp == Spaced(ws)
    IN  [i \in DOMAIN sp |-> [w |-> sp[i],
                              k |-> IF sp[i] \in Punct THEN "P"
                                    ELSE IF sp[i] \in lower THEN "L" ELSE "T"]]

Space == [w |-> " ", k |-> "P"]

Comma == [w |-> ",", k |-> "P"]

\* r"Superior Court Of (The )?State Of California,? County Of (.+)"
PatSuperiorState ==
    { Spaced(<<"superior", "court", "of", "the", "state", "of", "california", ",", "county", "of">>) \o <<" ">>,
      Spaced(<<"superior", "court", "of", "the", "state", "of", "california", "county", "of">>) \o <<" ">>,
      Spaced(<<"superior", "court", "of", "state", "of", "california", ",", "county", "of">>) \o <<" ">>,
      Spaced(<<"superior", "court", "of", "state", "of", "california", "county", "of">>) \o <<" ">> }

\* r"Superior Court Of California,? County Of (.+)"
PatSuperior ==
    { Spaced(<<"superior", "court", "of", "california", ",", "county", "of">>) \o <<" ">>,
      Spaced(<<"superior", "court", "of", "california", "county", "of">>) \o <<" ">> }

\* r"Superior Court of California, County of \N"
ReplSuperior ==
    Cased(<<"superior", "court", "of", "california", ",", "county", "of">>, {"of"}) \o <<Space>>

\* r"Supreme Court Of (The )?State Of California"
PatSupreme ==
    { Spaced(<<"supreme", "court", "of", "the", "state", "of", "california">>),
      Spaced(<<"supreme", "court", "of", "state", "of", "california">>) }

\* r"Supreme Court of California"
ReplSupreme == Cased(<<"supreme", "court", "of", "california">>, {"of"})

\* r"Court Of Appeal Of (The )?State Of California,? (.+)"
PatAppeal ==
    { Spaced(<<"court", "of", "appeal", "of", "the", "state", "of", "california", ",">>) \o <<" ">>,
      Spaced(<<"court", "of", "appeal", "of", "the", "state", "of", "california">>) \o <<" ">>,
      Spaced(<<"court", "of", "appeal", "of", "state", "of", "california", ",">>) \o <<" ">>,
      Spaced(<<"court", "of", "appeal", "of", "state", "of", "california">>) \o <<" ">> }

\* r"Court of Appeal of California, \2"
ReplAppeal == Cased(<<"court", "of", "appeal", "of", "california", ",">>, {"of"}) \o <<Space>>

\* a rule set whose first pattern demands the article: "Superior Court Of The
\* State Of California", never "Superior Court Of State Of California"
ApplyPatternsArticle(s) ==
    LET s1 == SubTail(s, {a \in PatSuperiorState : a[7] = "the"}, ReplSuperior)
        s2 == SubTail(s1, PatSuperior, ReplSuperior)
        s3 == SubAll(s2, PatSupreme, ReplSupreme)
    IN  SubTail(s3, PatAppeal, ReplAppeal)

\* the four rewrite rules, applied in order, each on the output of the one before
ApplyPatterns(s) ==
    LET s1 == SubTail(s, PatSuperiorState, ReplSuperior)
        s2 == SubTail(s1, PatSuperior, ReplSuperior)
        s3 == SubAll(s2, PatSupreme, ReplSupreme)
    IN  SubTail(s3, PatAppeal, ReplAppeal)

\* Python's `"Justice Center" in normalized`: a case-sensitive substring test
HasJusticeCenter(s) ==
    \E i \in 1..Len(s) :
        /\ MatchAt(s, i, <<"justice", " ", "center">>)
        /\ s[i].k = "T" /\ s[i + 2].k = "T"

NoComma(s, a, b) == \A j \in a..b : s[j].w # ","

AllSpace(s, a, b) == \A j \in a..b : s[j].w = " "

\* the matches of r"County Of ([^,]+),?\s+(.+?)\s*Justice Center" (IGNORECASE):
\* <<i, ce, r, e>> with "County Of " at i, the county s[i+4..ce], an optional
\* comma, the whitespace run ending at r, the center s[r+1..e], then optional
\* whitespace and "Justice Center"
JusticeMatches(s) ==
    UNION {UNION {UNION {{<<i, ce, r, e>> :
                            e \in {x \in (r + 1)..Len(s) :
                                      \E f \in x..Len(s) :
                                          /\ AllSpace(s, x + 1, f)
                                          /\ MatchAt(s, f + 1, <<"justice", " ", "center">>)}} :
                         r \in {x \in (IF ce + 1 <= Len(s) /\ s[ce + 1].w = "," THEN ce + 2 ELSE ce + 1)..Len(s) :
                                   AllSpace(s, IF ce + 1 <= Len(s) /\ s[ce + 1].w = "," THEN ce + 2 ELSE ce + 1, x)}} :
                  ce \in {x \in (i + 4)..Len(s) : NoComma(s, i + 4, x)}} :
           i \in {x \in 1..Len(s) : MatchAt(s, x, <<"county", " ", "of", " ">>)}}

\* the match re.search reports: leftmost start, greedy county, greedy
\* whitespace, lazy center
JusticeMatch(s) ==
    LET M == JusticeMatches(s)
        Better(a, b) ==
            \/ a[1] < b[1]
            \/ a[1] = b[1] /\ a[2] > b[2]
            \/ a[1] = b[1] /\ a[2] = b[2] /\ a[3] > b[3]
            \/ a[1] = b[1] /\ a[2] = b[2] /\ a[3] = b[3] /\ a[4] <= b[4]
    IN  CHOOSE a \in M : \A b \in M : Better(a, b)

\* f"Superior Court of California, County of {county}, {center} Justice Center"
FixJusticeCenter(s) ==
    IF HasJusticeCenter(s) /\ JusticeMatches(s) # {}
    THEN LET m == JusticeMatch(s)
         IN  ReplSuperior \o SubSeq(s, m[1] + 4, m[2]) \o <<Comma, Space>>
                 \o SubSeq(s, m[3] + 1, m[4]) \o <<Space>> \o Cased(<<"justice", "center">>, {})
    ELSE s

IsDivision(t) == t.w = "division" /\ t.k = "T"

\* re.sub(r"([^,]+) Division", r"Division \1", s), case-sensitive: the group
\* starts at the leftmost token from which a comma-free run reaches
\* " Division" and runs (greedily) to the last " Division" it can reach
RECURSIVE SubDivision(_)
SubDivision(s) ==
    LET Ends(i) == {d \in (i + 1)..(Len(s) - 1) :
                        IsSpace(s[d]) /\ IsDivision(s[d + 1]) /\ NoComma(s, i, d - 1)}
        starts == {i \in 1..Len(s) : Ends(i) # {}}
    IN  IF starts = {} THEN s
        ELSE LET i == CHOOSE a \in starts : \A b \in starts : a <= b
                 d == CHOOSE a \in Ends(i) : \A b \in Ends(i) : a >= b
             IN  SubSeq(s, 1, i - 1) \o <<[w |-> "division", k |-> "T"], Space>>
                     \o SubSeq(s, i, d - 1) \o SubDivision(SubSeq(s, d + 2, Len(s)))

FixDivision(s) == IF \E i \in 1..Len(s) : IsDivision(s[i]) THEN SubDivision(s) ELSE s

\* normalize_court_name: the empty name gives the empty string
normalize_court_name(court_name) ==
    IF court_name = <<>> \/ court_name = None THEN <<>>
    ELSE FixDivision(FixJusticeCenter(ApplyPatterns(Title(Strip(court_name)))))

\* group_similar_court_names: the distinct normalised names, in first-seen order
RECURSIVE group_similar_court_names(_)
group_similar_court_names(court_names) ==
    IF court_names = <<>> THEN <<>>
    ELSE LET init == group_similar_court_names(SubSeq(court_names, 1, Len(court_names) - 1))
             n == normalize_court_name(court_names[Len(court_names)])
         IN  IF \E i \in 1..Len(init) : init[i] = n THEN init ELSE Append(init, n)

(***************************************************************************)
(* Bounds of the model.                                                    *)
(***************************************************************************)
\* distinct file contents (hence content hashes) the write-path calls carry
NumHashes == 2

\* documents of the corpus the searches run over
NumCorpus == 3

\* ids the cluster may generate for writes that carry no id
MaxAuto == 1

\* longest document list handed to one bulk_index call
MaxBulk == 3

\* largest chunk_size tried
MaxChunk == 2

\* largest page number and page size the /search entry points are asked for
MaxPage == 2

MaxSize == 2

(***************************************************************************)
(* Documents.                                                              *)
(***************************************************************************)
\* the members of a list
Members(l) == {l[i] : i \in DOMAIN l}

\* a function's value at k, or d when k is not in its domain: dict.get(k, d)
Get(f, k, d) == IF k \in DOMAIN f THEN f[k] ELSE d

\* f overridden by g: the keys of g win
Override(f, g) == [k \in DOMAIN f \cup DOMAIN g |-> IF k \in DOMAIN g THEN g[k] ELSE f[k]]

\* Python truthiness of a string or list value
Truthy(v) == v # None /\ v # <<>>

NoHash == <<"none", 0>>

Hashes == {<<"sha", c>> : c \in 1..NumHashes} \cup {<<"sha", c>> : c \in 1..NumCorpus}

AutoIds == {<<"auto", n>> : n \in 1..MaxAuto}

Ids == Hashes \cup AutoIds

\* a null date in a stored source (a datetime is a day number, 0 for None)
NoTime == <<"none", 0>>

\* datetime.isoformat()
IsoFormat(t) == <<"iso", t>>

\* Path(file_path).name: the last component of the path
FileName(file_path) == file_path[Len(file_path)]

\* the text extracted from content c: a sequence of terms
TextOf(c) == IF c = 1 THEN <<"dui">> ELSE IF c = 2 THEN <<"dui", "dui", "dui">> ELSE <<"dwi">>

UpperKern == Str(Spaced(<<"superior", "court", "of", "california", ",", "county", "of", "kern">>), "U")

StateKern ==
    Str(Spaced(<<"superior", "court", "of", "the", "state", "of", "california", ",", "county", "of", "kern">>), "L")

SupremeLower == Str(Spaced(<<"supreme", "court", "of", "the", "state", "of", "california">>), "L")

\* Metadata.__init__ and Metadata.to_dict: the nine fields, the timestamp in
\* ISO format or null
MetadataToDict(m) ==
    [document_name |-> m.document_name,
     subject       |-> m.subject,
     status        |-> m.status,
     case_name     |-> m.case_name,
     case_number   |-> m.case_number,
     author        |-> m.author,
     judge         |-> m.judge,
     court         |-> m.court,
     timestamp     |-> IF m.timestamp # 0 THEN IsoFormat(m.timestamp) ELSE NoTime]

\* Document.to_dict: category is written only when set (embedding and s3_uri,
\* never set here, are left out the same way)
DocumentToDict(d) ==
    LET base == [file_path  |-> d.file_path,
                 file_name  |-> d.file_name,
                 text       |-> d.text,
                 doc_type   |-> d.doc_type,
                 chunk_id   |-> d.chunk_id,
                 metadata   |-> MetadataToDict(d.metadata),
                 hash       |-> d.hash,
                 created_at |-> IF d.created_at # 0 THEN IsoFormat(d.created_at) ELSE NoTime]
    IN  IF d.category # "" THEN Override(base, [category |-> d.category]) ELSE base

\* Document.__init__: file_name is derived from file_path
Document(file_path, text, metadata, doc_type, category, hash_value, created_at) ==
    [file_path |-> file_path, file_name |-> FileName(file_path), text |-> text,
     metadata |-> metadata, doc_type |-> doc_type, category |-> category,
     chunk_id |-> 0, hash |-> hash_value, created_at |-> created_at]

\* the Metadata object process_file builds (timestamp is never passed)
Metadata(document_name, court) ==
    [document_name |-> document_name, subject |-> Str(<<"unknown">>, "T"), status |-> None,
     timestamp |-> 0, case_name |-> None, case_number |-> None,
     author |-> None, judge |-> None, court |-> court]

\* the document process_file builds for the file with content c: first found
\* as in/a.pdf and classified, or reprocessed later from in/b.pdf without a
\* classification; hashed says whether the hash attribute is set
InputDoc(c, reprocessed, hashed) ==
    LET path == <<"in", IF reprocessed THEN "b.pdf" ELSE "a.pdf">>
    IN  Document(path, TextOf(c),
                 Metadata(FileName(path), IF reprocessed THEN None ELSE UpperKern),
                 IF reprocessed THEN "unknown" ELSE "Motion",
                 IF reprocessed THEN "" ELSE "PDF Document",
                 IF hashed THEN <<"sha", c>> ELSE NoHash,
                 IF reprocessed THEN 2 ELSE 1)

(***************************************************************************)
(* The index: the stored source of every id (es.index, es.update, es.get,  *)
(* es.exists of the cluster client).                                       *)
(***************************************************************************)
VARIABLES
    store,      \* id -> stored source, for the ids that are stored
    bulk,       \* the bulk_index call in flight, if any
    res,        \* what the last completed call gave its caller
    index,      \* whether the index exists, and its mapping
    pool        \* the process_directory run in flight, if any

vars == <<store, bulk, res, index, pool>>

Stored == DOMAIN store

\* es.index(id = doc_id, body = source): the source stored under the id is replaced
EsIndex(st, id, source) == Override(st, [i \in {id} |-> source])

\* a faulty es.update, kept to show what the merge properties rule out: the
\* metadata object of the partial document replaces the stored one
EsUpdateWhole(st, id, partial) ==
    Override(st, [i \in {id} |-> Override(st[id], partial)])

\* a faulty es.update that loses the id: the partial document is merged into
\* every stored source
EsUpdateEvery(st, id, partial) ==
    [i \in DOMAIN st |->
        [k \in DOMAIN st[i] \cup DOMAIN partial |->
            IF k \notin DOMAIN partial THEN st[i][k]
            ELSE IF k = "metadata" /\ k \in DOMAIN st[i] THEN Override(st[i][k], partial[k])
            ELSE partial[k]]]

\* es.update(id, body = {"doc": partial}): the partial document is merged into
\* the stored source, object fields (metadata) key by key, other fields replaced
EsUpdate(st, id, partial) ==
    LET old == st[id]
        merged == [k \in DOMAIN old \cup DOMAIN partial |->
                      IF k \notin DOMAIN partial THEN old[k]
                      ELSE IF k = "metadata" /\ k \in DOMAIN old THEN Override(old[k], partial[k])
                      ELSE partial[k]]
    IN  Override(st, [i \in {id} |-> merged])

\* the ids the cluster may still generate for a write carrying no id
FreshIds(st) == AutoIds \ DOMAIN st

\* the id the cluster generates: generated ids are opaque to the program, so
\* they are named in the order they are handed out
GeneratedId(st) == <<"auto", 1 + Cardinality(DOMAIN st \cap AutoIds)>>

BulkIdle == [pc |-> "idle"]

TopProps ==
    [file_path |-> "keyword", file_name |-> "text+keyword", category |-> "keyword",
     chunk_id |-> "integer", text |-> "text", doc_type |-> "keyword", s3_uri |-> "keyword",
     embedding |-> "dense_vector", hash |-> "keyword", created_at |-> "date"]

MetadataProps ==
    [document_name |-> "text+keyword", subject |-> "text+keyword", status |-> "keyword",
     case_name |-> "text+keyword", case_number |-> "keyword", author |-> "text+keyword",
     judge |-> "text+keyword", court |-> "text+keyword", timestamp |-> "date"]

\* ES_DOCUMENT_MAPPING: the fixed mapping
ES_DOCUMENT_MAPPING == [properties |-> TopProps, metadata |-> MetadataProps]

\* no index under the handler's index name
NoIndex == [exists |-> FALSE]

\* an index with a mapping
Index(mapping) == [exists |-> TRUE, mapping |-> mapping]

\* the mapping the cluster derives when a document is written to an index
\* that does not exist: the index is created on the fly, its fields mapped
\* as they come
DynamicMapping == [dynamic |-> TRUE]

\* a write creates the index when it is missing
AutoCreated(ix) == IF ix.exists THEN ix ELSE Index(DynamicMapping)

PoolIdle == [pc |-> "idle"]

\* the handler is connected, the index is there with the fixed mapping (as
\* DocumentProcessor.__init__ leaves it), nothing is stored, no call is running
Init ==
    /\ store = [i \in {} |-> <<>>]
    /\ bulk = BulkIdle
    /\ res = [op |-> "none"]
    /\ index = Index(ES_DOCUMENT_MAPPING)
    /\ pool = PoolIdle

(***************************************************************************)
(* index_document                                                          *)
(***************************************************************************)
\* metadata.court is normalised when present and non-empty
NormalizeCourtOf(doc_dict) ==
    IF Truthy(Get(Get(doc_dict, "metadata", <<>>), "court", None))
    THEN Override(doc_dict,
             [metadata |-> Override(doc_dict.metadata,
                              [court |-> normalize_court_name(doc_dict.metadata.court)])])
    ELSE doc_dict

\* getattr(document, 'hash', None) or doc_dict.get('hash_value')
DocId(document, doc_dict) ==
    IF document.hash # NoHash THEN document.hash ELSE Get(doc_dict, "hash_value", NoHash)

\* the id a write is stored under: the id given, or one the cluster generates
TargetId(st, doc_id) == IF doc_id # NoHash THEN doc_id ELSE GeneratedId(st)

index_document(document, accepted) ==
    LET doc_dict == NormalizeCourtOf(DocumentToDict(document))
        doc_id == DocId(document, doc_dict)
    IN  /\ \/ /\ accepted
              /\ TargetId(store, doc_id) \in Ids
              /\ store' = EsIndex(store, TargetId(store, doc_id), doc_dict)
              /\ res' = [op |-> "index_one", kind |-> "return",
                         id |-> TargetId(store, doc_id), hash |-> document.hash]
           \/ /\ ~accepted
              /\ store' = store
              /\ res' = [op |-> "index_one", kind |-> "raise", id |-> NoHash, hash |-> document.hash]
        /\ index' = IF accepted THEN AutoCreated(index) ELSE index
        /\ UNCHANGED <<bulk, pool>>

(***************************************************************************)
(* create_index                                                            *)
(***************************************************************************)
\* mapping = None: the caller gives no mapping
NoMapping == [none |-> TRUE]

\* a mapping a caller may hand over instead of the fixed one
CustomMapping == [properties |-> [file_path |-> "keyword", text |-> "text"]]

\* if mapping is None: mapping = ES_DOCUMENT_MAPPING
MappingOr(mapping) == IF mapping = NoMapping THEN ES_DOCUMENT_MAPPING ELSE mapping

\* what the cluster does with the calls of create_index: "ok", or
\* indices.exists raises, or indices.create raises
ClusterOutcomes == {"ok", "exists_fails", "create_fails"}

\* indices.create is called: indices.exists answered that the index is absent
CreateCalled(ix, cluster) == cluster # "exists_fails" /\ ~ix.exists

\* a faulty create_index, kept to show what leaving an existing index alone
\* rules out: the index is created without asking whether it exists
IndexAfterRecreate(ix, mapping, cluster) ==
    IF cluster = "ok" THEN Index(MappingOr(mapping)) ELSE ix

\* the index after create_index: created with the mapping when it was absent
\* and the cluster answered, else as it was
IndexAfter(ix, mapping, cluster) ==
    IF CreateCalled(ix, cluster) /\ cluster = "ok" THEN Index(MappingOr(mapping)) ELSE ix

\* True if the index was created or already exists, False on error
CreateReturns(ix, cluster) ==
    IF cluster = "exists_fails" THEN FALSE
    ELSE IF ~ix.exists THEN cluster = "ok"
    ELSE TRUE

create_index(mapping, cluster) ==
    /\ index' = IndexAfter(index, mapping, cluster)
    /\ res' = [op |-> "create_index", kind |-> "return", mapping |-> mapping,
               cluster |-> cluster, before |-> index,
               created |-> CreateCalled(index, cluster) /\ cluster = "ok",
               out |-> CreateReturns(index, cluster)]
    /\ UNCHANGED <<store, bulk, pool>>

(***************************************************************************)
(* bulk_index_documents: the action list is built first, then one blocking *)
(* helpers.bulk call per chunk.  Other callers run between two chunks.     *)
(***************************************************************************)
\* the action built for one document
BulkAction(doc) ==
    LET doc_dict == NormalizeCourtOf(DocumentToDict(doc))
    IN  [id |-> DocId(doc, doc_dict), source |-> doc_dict]

\* a faulty except block, kept to show what chunk isolation rules out: the
\* loop ends at the first chunk that raises
OnChunkErrorAbort(i, chunk_size, n) == n

\* the except block of the chunk loop: the error is logged and the loop goes
\* on with the next chunk
OnChunkError(i, chunk_size, n) == i + chunk_size

\* a faulty slice, kept to show what the partition rules out: one document
\* of every chunk is taken
ChunkAtFirst(n, i, chunk_size) == (i + 1)..(i + 1)

\* actions[i:i + chunk_size], as the positions it covers
ChunkAt(n, i, chunk_size) == (i + 1)..(IF i + chunk_size < n THEN i + chunk_size ELSE n)

\* the call as it enters its chunk loop: the actions built, the counters at 0
BulkCall(documents, chunk_size) ==
    [pc |-> "chunks",
     actions |-> [k \in DOMAIN documents |-> BulkAction(documents[k])],
     chunk_size |-> chunk_size, i |-> 0,
     success_count |-> 0, error_count |-> 0,
     log |-> [k \in DOMAIN documents |-> [outcome |-> "pending", id |-> NoHash]]]

bulk_start(documents, chunk_size) ==
    /\ bulk.pc = "idle"
    /\ pool.pc = "idle"
    /\ chunk_size >= 1
    /\ bulk' = BulkCall(documents, chunk_size)
    /\ UNCHANGED <<store, res, index, pool>>

\* the cluster applies the actions at the positions in `take`, in list order;
\* the result is the store and, per position, the id written
RECURSIVE ApplyActions(_, _, _, _)
ApplyActions(st, actions, positions, take) ==
    IF positions = {} THEN [store |-> st, ids |-> [k \in {} |-> NoHash]]
    ELSE LET k == CHOOSE a \in positions : \A b \in positions : a <= b
             id == TargetId(st, actions[k].id)
             st1 == IF k \in take THEN EsIndex(st, id, actions[k].source) ELSE st
             rest == ApplyActions(st1, actions, positions \ {k}, take)
         IN  [store |-> rest.store,
              ids |-> Override(rest.ids, [j \in {k} |-> IF k \in take THEN id ELSE NoHash])]

\* the generated ids the cluster has left are enough for the actions in `take`
CanGenerate(st, actions, take) ==
    Cardinality({k \in take : actions[k].id = NoHash}) <= Cardinality(FreshIds(st))

\* a faulty count, kept to show what the conservation of the counts rules
\* out: a chunk that raised adds nothing to error_count
ChunkErrorsListed(raised, chunk, rejected) == Cardinality(rejected)

\* what a pass adds to error_count: len(errors), or len(chunk) when the
\* submission raised
ChunkErrors(raised, chunk, rejected) ==
    IF raised THEN Cardinality(chunk) ELSE Cardinality(rejected)

\* one pass of the chunk loop.  helpers.bulk(raise_on_error = False) either
\* returns (success, errors), the documents at `rejected` refused one by one,
\* or raises (the cluster unreachable, the request timing out), in which
\* case the cluster may have applied any part of the chunk (`applied`)
bulk_chunk(raised, rejected, applied) ==
    /\ bulk.pc = "chunks"
    /\ bulk.i < Len(bulk.actions)
    /\ LET n == Len(bulk.actions)
           chunk == ChunkAt(n, bulk.i, bulk.chunk_size)
           take == IF raised THEN applied ELSE chunk \ rejected
           out == ApplyActions(store, bulk.actions, chunk, take)
       IN  /\ rejected \subseteq chunk /\ applied \subseteq chunk
           /\ raised => rejected = {}
           /\ ~raised => applied = {}
           /\ CanGenerate(store, bulk.actions, take)
           /\ store' = out.store
           /\ bulk' = [bulk EXCEPT
                  !.i = IF raised THEN OnChunkError(bulk.i, bulk.chunk_size, n)
                        ELSE bulk.i + bulk.chunk_size,
                  !.success_count = IF raised THEN @ ELSE @ + Cardinality(take),
                  !.error_count = @ + ChunkErrors(raised, chunk, rejected),
                  !.log = [k \in DOMAIN bulk.log |->
                              IF k \notin chunk THEN bulk.log[k]
                              ELSE [outcome |-> IF raised THEN "raised"
                                                ELSE IF k \in rejected THEN "rejected"
                                                ELSE "accepted",
                                    id |-> out.ids[k]]]]
           /\ index' = IF take = {} THEN index ELSE AutoCreated(index)
    /\ UNCHANGED <<res, pool>>

\* the loop is over: return success_count, error_count
bulk_return ==
    /\ bulk.pc = "chunks"
    /\ bulk.i >= Len(bulk.actions)
    /\ res' = [op |-> "bulk_index", kind |-> "return",
               success_count |-> bulk.success_count, error_count |-> bulk.error_count]
    /\ bulk' = BulkIdle
    /\ UNCHANGED <<store, index, pool>>

(***************************************************************************)
(* DocumentProcessor: process_directory hands every file to a worker of    *)
(* the pool (process_file), takes the documents as the workers finish and  *)
(* indexes them in batches.                                                *)
(***************************************************************************)
\* default chunk size of bulk_index_documents
ES_BULK_CHUNK_SIZE == 500

\* the path of the k-th file of the directory
FilePath(k) == <<"in", <<"a.pdf", "b.pdf", "c.pdf", "d.pdf">>[k]>>

\* the document process_file builds for the k-th file, of content c
FileDoc(k, c) ==
    Document(FilePath(k), TextOf(c), Metadata(FileName(FilePath(k)), None),
             "unknown", "", <<"sha", c>>, 1)

\* the documents of the batch: those of the files at the positions in `batch`
BatchDocs(files, batch) == [j \in DOMAIN batch |-> FileDoc(batch[j], files[batch[j]])]

\* the run starts: stats reset, one future per file submitted to the executor;
\* `outcome` records what became of each file, `failures` how many failures
\* the workers and the main thread have counted, and `handed` how many times
\* the document of each file was handed to bulk_index_documents
process_directory(files, batch_size, skip_existing) ==
    /\ pool.pc = "idle"
    /\ bulk.pc = "idle"
    /\ pool' = [pc |-> "loop", files |-> files,
                futures |-> [k \in DOMAIN files |-> "queued"],
                outcome |-> [k \in DOMAIN files |-> ""],
                loaded |-> [k \in DOMAIN files |-> 0],
                main_loaded |-> 0,
                failures |-> 0,
                handed |-> [k \in DOMAIN files |-> 0],
                documents_batch |-> <<>>,
                batch_size |-> batch_size, skip_existing |-> skip_existing,
                unanswered |-> FALSE,
                stats |-> [processed |-> 0, skipped |-> 0, indexed |-> 0, failed |-> 0]]
    /\ UNCHANGED <<store, bulk, res, index>>

\* es_handler.document_exists(file_hash), False on any error
HashStored(st, file_hash, cluster_ok) == cluster_ok /\ file_hash \in DOMAIN st

\* what becomes of a file in process_file: skipped, failed (no text), or
\* processed into a document
FileOutcome(skip_existing, exists, has_text) ==
    IF skip_existing /\ exists THEN "skipped"
    ELSE IF ~has_text THEN "failed"
    ELSE "processed"

\* self.stats[key] += 1 is a read of the counter followed by a write of the
\* value read plus one; the dictionary is shared, without a lock, by the
\* workers and the main thread, which may write the counter in between
StoredCount(loaded) == loaded + 1

\* process_file, run by a worker for the k-th file while the main thread
\* loops or indexes a batch, up to the read of the counter it increments;
\* the existence check is its one read of the index
process_file(k, cluster_ok, has_text) ==
    /\ pool.pc \in {"loop", "batch", "batch_counting"}
    /\ k \in DOMAIN pool.files
    /\ pool.futures[k] = "queued"
    /\ LET outcome == FileOutcome(pool.skip_existing,
                                  HashStored(store, <<"sha", pool.files[k]>>, cluster_ok),
                                  has_text)
       IN  pool' = [pool EXCEPT
                      !.futures[k] = "counting",
                      !.outcome[k] = outcome,
                      !.loaded[k] = pool.stats[outcome],
                      !.unanswered = @ \/ (pool.skip_existing /\ ~cluster_ok)]
    /\ UNCHANGED <<store, bulk, res, index>>

\* the worker writes the counter and returns the document, or None
process_file_return(k) ==
    /\ pool.pc \in {"loop", "batch", "batch_counting"}
    /\ k \in DOMAIN pool.files
    /\ pool.futures[k] = "counting"
    /\ pool' = [pool EXCEPT
                  !.futures[k] = IF pool.outcome[k] = "processed" THEN "document" ELSE "none",
                  !.loaded[k] = 0,
                  !.failures = IF pool.outcome[k] = "failed" THEN @ + 1 ELSE @,
                  !.stats[pool.outcome[k]] = StoredCount(pool.loaded[k])]
    /\ UNCHANGED <<store, bulk, res, index>>

\* the hand-over count after the documents at the positions in `batch` are
\* handed to bulk_index_documents
HandedWith(handed, batch) ==
    [k \in DOMAIN handed |->
        handed[k] + Cardinality({j \in DOMAIN batch : batch[j] = k})]

\* the batch after the result of the k-th future is taken: a document joins
\* it, None does not
BatchWith(documents_batch, k, future) ==
    IF future = "document" THEN Append(documents_batch, k) ELSE documents_batch

\* one turn of the as_completed loop: the result of a finished future is
\* taken; a document joins the batch, and a batch of batch_size documents is
\* handed to bulk_index_documents
as_completed(k) ==
    /\ pool.pc = "loop"
    /\ k \in DOMAIN pool.files
    /\ pool.futures[k] \in {"document", "none"}
    /\ LET batch == BatchWith(pool.documents_batch, k, pool.futures[k])
           full == pool.futures[k] = "document" /\ Len(batch) >= pool.batch_size
       IN  /\ pool' = [pool EXCEPT !.futures[k] = "taken",
                                   !.handed = IF full THEN HandedWith(@, batch) ELSE @,
                                   !.documents_batch = IF full THEN <<>> ELSE batch,
                                   !.pc = IF full THEN "batch" ELSE "loop"]
           /\ bulk' = IF full THEN BulkCall(BatchDocs(pool.files, batch), ES_BULK_CHUNK_SIZE)
                      ELSE bulk
    /\ UNCHANGED <<store, res, index>>

\* the loop is over: the remaining documents are handed to
\* bulk_index_documents, or, when there are none, the stats are returned
loop_end ==
    /\ pool.pc = "loop"
    /\ \A k \in DOMAIN pool.files : pool.futures[k] = "taken"
    /\ IF pool.documents_batch # <<>>
       THEN /\ bulk' = BulkCall(BatchDocs(pool.files, pool.documents_batch), ES_BULK_CHUNK_SIZE)
            /\ pool' = [pool EXCEPT !.documents_batch = <<>>, !.pc = "remaining",
                                    !.handed = HandedWith(@, pool.documents_batch)]
            /\ res' = res
       ELSE /\ pool' = PoolIdle
            /\ res' = [op |-> "process_directory", kind |-> "return", stats |-> pool.stats]
            /\ bulk' = bulk
    /\ UNCHANGED <<store, index>>

\* bulk_index_documents has returned (success, errors) to the main thread:
\* stats["indexed"] += success, which only the main thread writes, and the
\* read of stats["failed"] += errors
batch_indexed ==
    /\ pool.pc \in {"batch", "remaining"}
    /\ bulk.pc = "idle"
    /\ res.op = "bulk_index"
    /\ pool' = [pool EXCEPT !.stats.indexed = @ + res.success_count,
                            !.main_loaded = pool.stats.failed + res.error_count,
                            !.failures = @ + res.error_count,
                            !.pc = IF pool.pc = "batch" THEN "batch_counting"
                                   ELSE "remaining_counting"]
    /\ UNCHANGED <<store, bulk, res, index>>

\* the write of stats["failed"] += errors; the loop goes on, or, after the
\* remaining documents, the stats are returned
batch_counted ==
    /\ pool.pc \in {"batch_counting", "remaining_counting"}
    /\ LET stats == [pool.stats EXCEPT !.failed = pool.main_loaded]
       IN  IF pool.pc = "batch_counting"
           THEN /\ pool' = [pool EXCEPT !.stats = stats, !.main_loaded = 0, !.pc = "loop"]
                /\ res' = res
           ELSE /\ pool' = PoolIdle
                /\ res' = [op |-> "process_directory", kind |-> "return", stats |-> stats]
    /\ UNCHANGED <<store, bulk, index>>

(***************************************************************************)
(* update_document_metadata, get_document, document_exists                 *)
(***************************************************************************)
\* [tag.strip() for tag in legal_tags]
StripAll(tags) == [k \in DOMAIN tags |-> Strip(tags[k])]

\* the update body: the metadata as given, court normalised, legal_tags and
\* judge trimmed, doc_type and category copied to the top level
UpdateDoc(metadata) ==
    LET court == IF Truthy(Get(metadata, "court", None))
                 THEN [court |-> normalize_court_name(metadata["court"])] ELSE <<>>
        tags == IF Get(metadata, "legal_tags", <<>>) # <<>>
                THEN [legal_tags |-> StripAll(metadata["legal_tags"])] ELSE <<>>
        judge == IF Truthy(Get(metadata, "judge", None))
                 THEN [judge |-> Strip(metadata["judge"])] ELSE <<>>
        top == [k \in {"doc_type", "category"} \cap DOMAIN metadata |-> metadata[k]]
    IN  Override(top, [metadata |-> Override(Override(Override(metadata, court), tags), judge)])

\* an except block that lets the error out instead of returning False
OnUpdateErrorRaised(document_id) ==
    [op |-> "update_metadata", kind |-> "raise", id |-> document_id, ok |-> FALSE]

\* what update_document_metadata returns when es.update raises: the error
\* is logged and False is returned
OnUpdateError(document_id) ==
    [op |-> "update_metadata", kind |-> "return", id |-> document_id, ok |-> FALSE]

\* a completed call as the model records it: what the caller got, with the
\* arguments the call was made with
Called(result, arguments) == Override(result, [args |-> arguments])

\* es.update raises NotFoundError for an id that is not stored, and whatever
\* the transport raises when the cluster fails
update_document_metadata(document_id, metadata, cluster_ok) ==
    /\ IF document_id \in Stored /\ cluster_ok
       THEN /\ store' = EsUpdate(store, document_id, UpdateDoc(metadata))
            /\ res' = Called([op |-> "update_metadata", kind |-> "return",
                               id |-> document_id, ok |-> TRUE], metadata)
       ELSE /\ store' = store
            /\ res' = Called(OnUpdateError(document_id), metadata)
    /\ UNCHANGED <<bulk, index, pool>>

\* get_document: the stored source with its id added; a missing id raises
get_document(document_id, cluster_ok) ==
    /\ IF document_id \in Stored /\ cluster_ok
       THEN res' = [op |-> "get", kind |-> "return", id |-> document_id,
                    doc |-> Override(store[document_id], [id |-> document_id])]
       ELSE res' = [op |-> "get", kind |-> "raise", id |-> document_id]
    /\ UNCHANGED <<store, bulk, index, pool>>

\* document_exists / document_exists_by_id: es.exists, False on any error
document_exists(doc_hash, cluster_ok) ==
    /\ res' = [op |-> "exists", kind |-> "return", id |-> doc_hash,
               found |-> cluster_ok /\ doc_hash \in Stored]
    /\ UNCHANGED <<store, bulk, index, pool>>

\* POST /update-metadata (server.py): 404 when the id is not stored, 500 when
\* the update or the read-back fails, else the updated document
update_metadata_endpoint(document_id, metadata, ok_exists, ok_update, ok_get) ==
    /\ IF ~(ok_exists /\ document_id \in Stored)
       THEN /\ store' = store
            /\ res' = [op |-> "POST /update-metadata", status |-> 404, id |-> document_id]
       ELSE IF ~ok_update
       THEN /\ store' = store
            /\ res' = [op |-> "POST /update-metadata", status |-> 500, id |-> document_id]
       ELSE /\ store' = EsUpdate(store, document_id, UpdateDoc(metadata))
            /\ res' = [op |-> "POST /update-metadata", id |-> document_id,
                       status |-> IF ok_get THEN 200 ELSE 500]
    /\ UNCHANGED <<bulk, index, pool>>

(***************************************************************************)
(* search_documents: the query builder.  A filter value is a string        *)
(* [kind |-> "str", s |-> tokens], a list of strings [kind |-> "list",     *)
(* items |-> <<tokens, ...>>] or, for a caller's mistake, a number         *)
(* [kind |-> "int", n |-> 42].                                             *)
(***************************************************************************)
StrV(s) == [kind |-> "str", s |-> s]

ListV(items) == [kind |-> "list", items |-> items]

IntV(n) == [kind |-> "int", n |-> n]

\* value is not None and value != "" and value != []
FilterGiven(value) ==
    CASE value.kind = "str" -> value.s # None /\ value.s # <<>>
      [] value.kind = "list" -> value.items # <<>>
      [] OTHER -> TRUE

\* the order in which the entry points fill metadata_filters
FilterFields == <<"case_number", "case_name", "judge", "court", "author", "status", "legal_tags">>

OperatorTokens == {"OR", "AND", "\"", "*", "~"}

\* the characters of a word of a query: the upper-case words are spelled
\* out, a lower-case word (which holds no character of an operator) is one unit
Spell(w) ==
    CASE w = "OR" -> <<"O", "R">>
      [] w = "AND" -> <<"A", "N", "D">>
      [] w = "ORDER" -> <<"O", "R", "D", "E", "R">>
      [] w = "ANDREWS" -> <<"A", "N", "D", "R", "E", "W", "S">>
      [] OTHER -> <<w>>

\* the query string: its words, a blank between them
RECURSIVE QueryChars(_)
QueryChars(query) ==
    IF query = <<>> THEN <<>>
    ELSE IF Len(query) = 1 THEN Spell(query[1])
    ELSE Spell(query[1]) \o <<" ">> \o QueryChars(Tail(query))

\* op in query: the characters of op occur in the string, one after the other
Contains(chars, op) ==
    \E i \in 0..(Len(chars) - Len(op)) : \A j \in DOMAIN op : chars[i + j] = op[j]

\* any(op in query for op in ['OR', 'AND', '"', '*', '~'])
HasOperators(query) == \E op \in OperatorTokens : Contains(QueryChars(query), Spell(op))

\* a faulty selection, kept to show what the exact mode rules out: the
\* non-fuzzy branch asks for one of the terms and adds no phrase clause
TextClausesAnyTerm(query, use_fuzzy) ==
    IF query = <<>> THEN <<>>
    ELSE IF HasOperators(query) THEN <<[kind |-> "query_string", query |-> query]>>
    ELSE <<[kind |-> "multi_match", type |-> "best_fields", query |-> query,
            fuzziness |-> IF use_fuzzy THEN "AUTO" ELSE "0", operator |-> "or", boost |-> 1]>>

\* the text clauses: expression mode, one fuzzy best-fields clause, or an
\* all-terms best-fields clause next to a boosted phrase clause
TextClauses(query, use_fuzzy) ==
    IF query = <<>> THEN <<>>
    ELSE IF HasOperators(query) THEN <<[kind |-> "query_string", query |-> query]>>
    ELSE IF use_fuzzy
    THEN <<[kind |-> "multi_match", type |-> "best_fields", query |-> query,
            fuzziness |-> "AUTO", operator |-> "or", boost |-> 1]>>
    ELSE <<[kind |-> "multi_match", type |-> "best_fields", query |-> query,
            fuzziness |-> "0", operator |-> "and", boost |-> 1],
           [kind |-> "multi_match", type |-> "phrase", query |-> query,
            fuzziness |-> "0", operator |-> "and", boost |-> 2]>>

Term(field, value) == [kind |-> "term", field |-> field, value |-> value]

Terms(field, values) == [kind |-> "terms", field |-> field, values |-> values]

\* a faulty legal_tags branch that ignores legal_tags_match_all: always one
\* terms filter
TagFiltersAny(value, legal_tags_match_all) ==
    IF value.kind = "list" /\ Len(value.items) > 0
    THEN <<[kind |-> "terms", field |-> <<"metadata", "legal_tags", "keyword">>,
            values |-> value.items]>>
    ELSE IF value.kind = "str" /\ value.s # <<>>
    THEN <<[kind |-> "term", field |-> <<"metadata", "legal_tags", "keyword">>, value |-> value.s]>>
    ELSE <<>>

\* the legal_tags branch: one term filter per tag (AND), or one terms filter
\* (OR); a scalar tag gives one term filter
TagFilters(value, legal_tags_match_all) ==
    IF value.kind = "list" /\ Len(value.items) > 0
    THEN IF legal_tags_match_all
         THEN [k \in DOMAIN value.items |-> Term(<<"metadata", "legal_tags", "keyword">>, value.items[k])]
         ELSE <<Terms(<<"metadata", "legal_tags", "keyword">>, value.items)>>
    ELSE IF value.kind = "str" /\ value.s # <<>>
    THEN <<Term(<<"metadata", "legal_tags", "keyword">>, value.s)>>
    ELSE <<>>

\* the function_score clause of the OR branch, added to the must clauses
\* when no explicit sort is requested
TagScoreClauses(value, legal_tags_match_all, sort_by) ==
    IF value.kind = "list" /\ Len(value.items) > 0 /\ ~legal_tags_match_all /\ sort_by = <<>>
    THEN <<[kind |-> "function_score", tags |-> value.items, boost_mode |-> "replace"]>>
    ELSE <<>>

\* the three-way should for one court: normalised keyword, raw keyword,
\* all tokens of the normalised name
CourtShould(court) ==
    LET normalized_court == normalize_court_name(court)
    IN  [kind |-> "should",
         clauses |-> <<Term(<<"metadata", "court", "keyword">>, normalized_court),
                       Term(<<"metadata", "court", "keyword">>, court),
                       [kind |-> "match_and", field |-> <<"metadata", "court">>,
                        query |-> normalized_court]>>]

\* normalize_court_name raises on a value that is not a string (and not falsy)
CourtRaises(value) == value.kind = "int" /\ value.n # 0

CourtFilters(value) ==
    IF value.kind = "list"
    THEN <<[kind |-> "should", clauses |-> [k \in DOMAIN value.items |-> CourtShould(value.items[k])]]>>
    ELSE <<CourtShould(IF value.kind = "str" THEN value.s ELSE <<>>)>>

\* every other field: terms for a list, term for a scalar
GenericFilters(field, value) ==
    IF value.kind = "list"
    THEN <<Terms(<<"metadata", field, "keyword">>, value.items)>>
    ELSE <<Term(<<"metadata", field, "keyword">>, IF value.kind = "str" THEN value.s ELSE <<>>)>>

\* a faulty date filter that ranges over the processing time
DateFiltersOnCreated(date_range) ==
    IF DOMAIN date_range = {} THEN <<>>
    ELSE <<[kind |-> "range", field |-> <<"created_at">>,
            gte |-> Get(date_range, "start", 0), lte |-> Get(date_range, "end", 0)]>>

\* the date-range filter: each bound present only when given and non-empty
DateFilters(date_range) ==
    IF DOMAIN date_range = {} THEN <<>>
    ELSE <<[kind |-> "range", field |-> <<"metadata", "timestamp">>,
            gte |-> Get(date_range, "start", 0), lte |-> Get(date_range, "end", 0)]>>

\* the sort field: created_at is redirected to metadata.timestamp, any other
\* field but metadata.timestamp gets the .keyword suffix unless it has it
SortField(sort_by) ==
    IF sort_by = <<"created_at">> THEN <<"metadata", "timestamp">>
    ELSE IF ~(Len(sort_by) > 1 /\ sort_by[Len(sort_by)] = "keyword")
            /\ sort_by # <<"metadata", "timestamp">>
    THEN Append(sort_by, "keyword")
    ELSE sort_by

\* the filter clauses of one metadata_filters entry
EntryFilters(field, value, legal_tags_match_all) ==
    IF ~FilterGiven(value) THEN <<>>
    ELSE IF field = "legal_tags" THEN TagFilters(value, legal_tags_match_all)
    ELSE IF field = "court" THEN CourtFilters(value)
    ELSE GenericFilters(field, value)

\* the must clauses one metadata_filters entry adds
EntryMust(field, value, legal_tags_match_all, sort_by) ==
    IF FilterGiven(value) /\ field = "legal_tags"
    THEN TagScoreClauses(value, legal_tags_match_all, sort_by)
    ELSE <<>>

RECURSIVE FlattenSeq(_)
FlattenSeq(ss) == IF ss = <<>> THEN <<>> ELSE Head(ss) \o FlattenSeq(Tail(ss))

\* building the body raises when a court value is not a string
BuildRaises(rq) ==
    \E k \in DOMAIN rq.metadata_filters :
        /\ rq.metadata_filters[k].field = "court"
        /\ FilterGiven(rq.metadata_filters[k].value)
        /\ CourtRaises(rq.metadata_filters[k].value)

\* the search body: size and from as given, the must and filter clauses (a
\* body with neither is match_all), the sort and whether highlights are asked
SearchBody(rq) ==
    LET mf == rq.metadata_filters
    IN  [size |-> rq.size,
         from |-> rq.from_value,
         must |-> TextClauses(rq.query, rq.use_fuzzy)
                    \o FlattenSeq([k \in DOMAIN mf |->
                           EntryMust(mf[k].field, mf[k].value, rq.legal_tags_match_all, rq.sort_by)]),
         filter |-> (IF rq.doc_type # "" THEN <<Term(<<"doc_type", "keyword">>, rq.doc_type)>> ELSE <<>>)
                    \o FlattenSeq([k \in DOMAIN mf |->
                           EntryFilters(mf[k].field, mf[k].value, rq.legal_tags_match_all)])
                    \o DateFilters(rq.date_range),
         sort |-> IF rq.sort_by # <<>>
                  THEN <<[field |-> SortField(rq.sort_by), order |-> rq.sort_order]>> ELSE <<>>,
         highlight |-> rq.query # <<>>]

(***************************************************************************)
(* The index mapping (ES_DOCUMENT_MAPPING) and what the cluster does with  *)
(* a body.  A string field the mapping does not name is mapped when first  *)
(* written, as text with a keyword sub-field.                              *)
(***************************************************************************)
\* the type of a field path: "none" when the path names no field
FieldType(path) ==
    LET props == IF path[1] = "metadata" THEN MetadataProps ELSE TopProps
        rest == IF path[1] = "metadata" THEN Tail(path) ELSE path
        base == IF rest = <<>> THEN "object"
                ELSE Get(props, rest[1], "text+keyword")
    IN  IF Len(rest) = 1 THEN (IF base = "text+keyword" THEN "text" ELSE base)
        ELSE IF Len(rest) = 2 /\ rest[2] = "keyword" /\ base = "text+keyword" THEN "keyword"
        ELSE "none"

\* the values a stored source holds at a field of the source
SourceValues(source, path) ==
    LET obj == IF path[1] = "metadata" THEN source.metadata ELSE source
        name == IF path[1] = "metadata" THEN path[2] ELSE path[1]
    IN  IF name \notin DOMAIN obj THEN {}
        ELSE IF name = "legal_tags" THEN {obj[name][k] : k \in DOMAIN obj[name]}
        ELSE IF name \in {"timestamp", "created_at"}
        THEN (IF obj[name] = NoTime THEN {} ELSE {obj[name]})
        ELSE IF name \in {"doc_type", "category", "file_name", "document_name"}
        THEN (IF obj[name] = "" THEN {} ELSE {obj[name]})
        ELSE IF name \in {"court", "judge", "subject", "status", "case_name", "case_number", "author"}
        THEN (IF obj[name] = None THEN {} ELSE {obj[name]})
        ELSE {}

\* the exact values indexed at a keyword (or date) field path
KeywordValues(source, path) ==
    IF FieldType(path) \in {"keyword", "date"}
    THEN SourceValues(source, IF path[Len(path)] = "keyword" /\ Len(path) > 1 /\ FieldType(SubSeq(path, 1, Len(path) - 1)) = "text"
                              THEN SubSeq(path, 1, Len(path) - 1) ELSE path)
    ELSE {}

\* the analysed terms of a text field: lower-cased words, punctuation dropped
RECURSIVE AnalyzedWords(_)
AnalyzedWords(s) ==
    IF s = <<>> \/ s = None THEN <<>>
    ELSE IF Head(s).k = "P" THEN AnalyzedWords(Tail(s))
    ELSE <<Head(s).w>> \o AnalyzedWords(Tail(s))

\* the analysed terms of the four fields the text clauses search
FieldTerms(source, f) ==
    CASE f = "text" -> source.text
      [] f = "file_name" -> <<source.file_name>>
      [] OTHER -> AnalyzedWords(Get(source.metadata, f, None))

TextFields == {"text", "subject", "case_name", "file_name"}

\* terms one edit apart (fuzziness AUTO allows one edit for 3 to 5 letters)
FuzzyPairs == {{"dui", "dwi"}}

TermMatches(q, d, fuzziness) == q = d \/ (fuzziness = "AUTO" /\ {q, d} \in FuzzyPairs)

\* occurrences of the query's terms in a field
TermFreq(terms, query, fuzziness) ==
    Cardinality({<<i, j>> \in (DOMAIN terms) \X (DOMAIN query) :
                    TermMatches(query[j], terms[i], fuzziness)})

\* the field holds every term of the query (operator and) or one of them (or)
FieldHolds(terms, query, operator, fuzziness) ==
    IF operator = "and"
    THEN \A j \in DOMAIN query : \E i \in DOMAIN terms : TermMatches(query[j], terms[i], fuzziness)
    ELSE \E j \in DOMAIN query : \E i \in DOMAIN terms : TermMatches(query[j], terms[i], fuzziness)

\* the field holds the query's terms next to each other, in order
FieldHoldsPhrase(terms, query) ==
    \E i \in 0..(Len(terms) - Len(query)) : \A j \in DOMAIN query : terms[i + j] = query[j]

\* an expression-mode query: the groups of terms separated by OR; the terms
\* of a group must all occur (default_operator AND)
RECURSIVE OrGroups(_)
OrGroups(query) ==
    IF \A i \in DOMAIN query : query[i] # "OR"
    THEN {{query[i] : i \in {j \in DOMAIN query : query[j] \notin OperatorTokens}}}
    ELSE LET i == CHOOSE a \in DOMAIN query : query[a] = "OR" /\ \A b \in 1..(a - 1) : query[b] # "OR"
         IN  OrGroups(SubSeq(query, 1, i - 1)) \cup OrGroups(SubSeq(query, i + 1, Len(query)))

\* does a stored source match a clause
RECURSIVE Matches(_, _)
Matches(source, c) ==
    CASE c.kind = "term" -> c.value \in KeywordValues(source, c.field)
      [] c.kind = "terms" -> \E k \in DOMAIN c.values : c.values[k] \in KeywordValues(source, c.field)
      [] c.kind = "match_and" ->
             LET have == UNION {{AnalyzedWords(v)[k] : k \in DOMAIN AnalyzedWords(v)} :
                                    v \in SourceValues(source, c.field)}
                 want == AnalyzedWords(c.query)
             IN  want # <<>> /\ \A k \in DOMAIN want : want[k] \in have
      [] c.kind = "should" -> \E k \in DOMAIN c.clauses : Matches(source, c.clauses[k])
      [] c.kind = "range" ->
             \E ts \in KeywordValues(source, c.field) :
                 (c.gte = 0 \/ ts[2] >= c.gte) /\ (c.lte = 0 \/ ts[2] <= c.lte)
      [] c.kind = "multi_match" ->
             \E f \in TextFields :
                 IF c.type = "phrase" THEN FieldHoldsPhrase(FieldTerms(source, f), c.query)
                 ELSE FieldHolds(FieldTerms(source, f), c.query, c.operator, c.fuzziness)
      [] c.kind = "query_string" ->
             \E g \in OrGroups(c.query) :
                 /\ g # {}
                 /\ \A q \in g : \E f \in TextFields :
                        \E i \in DOMAIN FieldTerms(source, f) : FieldTerms(source, f)[i] = q
      [] c.kind = "function_score" -> TRUE

\* the script of the function_score clause: how many of the requested tags
\* the document carries
TagMatches(source, tags) ==
    Cardinality({k \in DOMAIN tags :
                    tags[k] \in KeywordValues(source, <<"metadata", "legal_tags", "keyword">>)})

Max(S) == CHOOSE a \in S : \A b \in S : a >= b

\* the score a must clause gives a document it matches: for a text clause a
\* number growing with the occurrences of the query's terms in the best field
\* (times the boost), for the function_score clause the script's value
ClauseScore(source, c) ==
    CASE c.kind = "function_score" -> TagMatches(source, c.tags)
      [] c.kind = "multi_match" ->
             c.boost * Max({TermFreq(FieldTerms(source, f), c.query, c.fuzziness) : f \in TextFields})
      [] c.kind = "query_string" ->
             Max({TermFreq(FieldTerms(source, f), c.query, "0") : f \in TextFields})
      [] OTHER -> 0

RECURSIVE SumSeq(_)
SumSeq(s) == IF s = <<>> THEN 0 ELSE Head(s) + SumSeq(Tail(s))

\* a bool query scores a document by the sum of its must clauses; filter
\* clauses do not score; match_all scores 1
Score(source, body) ==
    IF body.must = <<>> /\ body.filter = <<>> THEN 1
    ELSE SumSeq([k \in DOMAIN body.must |-> ClauseScore(source, body.must[k])])

\* the ids of the stored documents matching every must and filter clause
MatchIds(st, body) ==
    {id \in DOMAIN st :
        /\ \A k \in DOMAIN body.must : Matches(st[id], body.must[k])
        /\ \A k \in DOMAIN body.filter : Matches(st[id], body.filter[k])}

\* the position of an id in the index: ties in the ranking keep this order
IdRank(id) == IF id[1] = "sha" THEN id[2] ELSE NumHashes + NumCorpus + id[2]

\* the value a document is sorted on (0 when it has none: missing values last)
SortKey(source, field) ==
    LET vs == KeywordValues(source, field)
    IN  IF vs = {} THEN 0 ELSE (CHOOSE v \in vs : TRUE)[2]

\* the cluster refuses to sort on a path that names no sortable field
SortFails(body) ==
    body.sort # <<>> /\ FieldType(body.sort[1].field) \notin {"keyword", "date", "integer"}

\* does a rank before b in the response
Before(st, body, a, b) ==
    IF body.sort # <<>> /\ FieldType(body.sort[1].field) = "date"
    THEN LET ka == SortKey(st[a], body.sort[1].field)
             kb == SortKey(st[b], body.sort[1].field)
         IN  \/ ka # 0 /\ kb = 0
             \/ ka # 0 /\ kb # 0 /\ (IF body.sort[1].order = "asc" THEN ka < kb ELSE ka > kb)
             \/ ka = kb /\ IdRank(a) < IdRank(b)
    ELSE IF body.sort # <<>> THEN IdRank(a) < IdRank(b)
    ELSE \/ Score(st[a], body) > Score(st[b], body)
         \/ Score(st[a], body) = Score(st[b], body) /\ IdRank(a) < IdRank(b)

\* the matching ids in response order
RECURSIVE Ranked(_, _, _)
Ranked(st, body, ids) ==
    IF ids = {} THEN <<>>
    ELSE LET first == CHOOSE a \in ids : \A b \in ids \ {a} : Before(st, body, a, b)
         IN  <<first>> \o Ranked(st, body, ids \ {first})

\* response["hits"]["hits"]: the page from offset `from`, at most `size` long
Page(ranked, from, size) ==
    SubSeq(ranked, from + 1, IF from + size < Len(ranked) THEN from + size ELSE Len(ranked))

(***************************************************************************)
(* search_documents and the two /search entry points                       *)
(***************************************************************************)
\* a faulty except branch that forgets the caller's offset
OnSearchErrorNoOffset(size, from_value) ==
    [total |-> 0, hits |-> <<>>, page_size |-> size, from |-> 0]

\* the except branch of search_documents: the empty result, the caller's
\* size and offset echoed
OnSearchError(size, from_value) ==
    [total |-> 0, hits |-> <<>>, page_size |-> size, from |-> from_value]

\* the fields the engine returns highlights for: text and metadata.subject,
\* where they hold a term of the query
Highlights(source, rq) ==
    {f \in {"text", "subject"} : TermFreq(FieldTerms(source, f), rq.query, "0") > 0}

\* the hits of a response: the documents of a page, each with its id, its
\* score, its source and its highlights
EsHits(st, rq, body, page) ==
    [k \in DOMAIN page |->
        [id |-> page[k], score |-> Score(st[page[k]], body), source |-> st[page[k]],
         highlight |-> IF body.highlight THEN Highlights(st[page[k]], rq) ELSE {}]]

\* the response for the matching ids: their number and the page asked for
EsResponse(st, rq, body, ids) ==
    [failed |-> FALSE,
     total |-> Cardinality(ids),
     hits |-> EsHits(st, rq, body, Page(Ranked(st, body, ids), body.from, body.size))]

\* es.search: the cluster's response to a body, unless the cluster fails the
\* call (`cluster` is "ok" or how it fails) or the engine rejects the sort
EsSearch(st, rq, body, cluster) ==
    IF cluster # "ok" \/ SortFails(body) THEN [failed |-> TRUE]
    ELSE EsResponse(st, rq, body, MatchIds(st, body))

\* the cluster's response to a request, when the body can be built
Response(st, rq, cluster) ==
    IF BuildRaises(rq) THEN [failed |-> TRUE] ELSE EsSearch(st, rq, SearchBody(rq), cluster)

\* a hit as search_documents returns it: the source, with the highlights
\* when the engine returned any
FormatHit(hit) ==
    IF hit.highlight # {} THEN Override(hit.source, [highlight |-> hit.highlight]) ELSE hit.source

\* what search_documents returns, given the cluster's response
SearchResult(rq, response) ==
    IF response.failed THEN OnSearchError(rq.size, rq.from_value)
    ELSE [total |-> response.total,
          hits |-> [k \in DOMAIN response.hits |-> FormatHit(response.hits[k])],
          page_size |-> rq.size,
          from |-> rq.from_value]

\* a completed search as the model records it: what the caller got, with the
\* request and the cluster's response
Searched(call, rq, response) ==
    Override(call, [kind |-> "return", response |-> response, out |-> SearchResult(rq, response)])

search_documents(rq, cluster) ==
    /\ res' = Searched([op |-> "search", rq |-> rq, cluster |-> cluster],
                       rq, Response(store, rq, cluster))
    /\ UNCHANGED <<store, bulk, index, pool>>

\* the defaults of search_documents' parameters
DefaultRequest ==
    [query |-> <<>>, doc_type |-> "", metadata_filters |-> <<>>, date_range |-> <<>>,
     size |-> 10, from_value |-> 0, sort_by |-> <<>>, sort_order |-> "desc",
     use_fuzzy |-> FALSE, legal_tags_match_all |-> FALSE]

\* the metadata filters an entry point builds: the fields it knows, in its
\* order, those the client gave a non-empty value
RECURSIVE EntryFiltersOf(_, _)
EntryFiltersOf(data, fields) ==
    IF fields = <<>> THEN <<>>
    ELSE LET f == Head(fields)
             rest == EntryFiltersOf(data, Tail(fields))
         IN  IF f \in DOMAIN data.fields /\ FilterGiven(data.fields[f])
             THEN <<[field |-> f, value |-> data.fields[f]]>> \o rest
             ELSE rest

ServerFields == <<"case_number", "case_name", "judge", "court", "author", "status">>

\* POST /search of server.py: from_value is computed from page and size; the
\* call passes query, doc_type, the filters, date_range, size, sort_by,
\* sort_order and use_fuzzy
ServerRequest(data) ==
    LET from_value == (data.page - 1) * data.size
    IN  [DefaultRequest EXCEPT
            !.query = data.query, !.doc_type = data.doc_type,
            !.metadata_filters = EntryFiltersOf(data, ServerFields),
            !.date_range = data.date_range, !.size = data.size,
            !.sort_by = data.sort_by, !.sort_order = data.sort_order,
            !.use_fuzzy = data.use_fuzzy]

\* POST /search of api/index.py: the same, with legal_tags among the filters,
\* and from_value and legal_tags_match_all passed on
ApiRequest(data) ==
    LET from_value == (data.page - 1) * data.size
    IN  [DefaultRequest EXCEPT
            !.query = data.query, !.doc_type = data.doc_type,
            !.metadata_filters = EntryFiltersOf(data, FilterFields),
            !.date_range = data.date_range, !.size = data.size,
            !.sort_by = data.sort_by, !.sort_order = data.sort_order,
            !.use_fuzzy = data.use_fuzzy, !.from_value = from_value,
            !.legal_tags_match_all = data.legal_tags_match_all]

search_endpoint_server(data, cluster) ==
    /\ res' = Searched([op |-> "POST /search", entry |-> "server.py", data |-> data,
                        cluster |-> cluster],
                       ServerRequest(data), Response(store, ServerRequest(data), cluster))
    /\ UNCHANGED <<store, bulk, index, pool>>

search_endpoint_api(data, cluster) ==
    /\ res' = Searched([op |-> "POST /search", entry |-> "api/index.py", data |-> data,
                        cluster |-> cluster],
                       ApiRequest(data), Response(store, ApiRequest(data), cluster))
    /\ UNCHANGED <<store, bulk, index, pool>>

(***************************************************************************)
(* The calls made on the write path: single-document indexing, metadata    *)
(* updates and reads, from any number of callers, one call at a time.      *)
(***************************************************************************)
(* get_metadata_field_values: the distinct values of a metadata field, by  *)
(* a terms aggregation on its keyword form.                                *)
(***************************************************************************)
\* the words of the names that are sorted, in alphabetical order
WordOrder ==
    <<"angeles", "appeal", "appellate", "california", "center", "central", "county", "court",
      "district", "division", "jane", "judge", "justice", "kern", "los", "none", "null", "of",
      "orange", "second", "smith", "state", "superior", "supreme", "the">>

\* where a token sorts: the space, the comma, the capitalised words, the
\* lower-case words, as their first characters compare
TokenKey(t) ==
    IF t.w = " " THEN 1
    ELSE IF t.w = "," THEN 2
    ELSE (IF t.k = "L" THEN 200 ELSE 100) + (CHOOSE i \in DOMAIN WordOrder : WordOrder[i] = t.w)

\* string comparison a < b
RECURSIVE StrLess(_, _)
StrLess(a, b) ==
    IF b = <<>> THEN FALSE
    ELSE IF a = <<>> THEN TRUE
    ELSE IF Head(a) = Head(b) THEN StrLess(Tail(a), Tail(b))
    ELSE TokenKey(Head(a)) < TokenKey(Head(b))

\* list.sort() of distinct strings
RECURSIVE SortStrings(_)
SortStrings(S) ==
    IF S = {} THEN <<>>
    ELSE LET least == CHOOSE a \in S : \A b \in S \ {a} : StrLess(a, b)
         IN  <<least>> \o SortStrings(S \ {least})

\* s.startswith(prefix)
StartsWith(s, prefix) == Len(prefix) <= Len(s) /\ SubSeq(s, 1, Len(prefix)) = prefix

\* the documents a bucket counts: those among docs holding the key
BucketCount(st, path, docs, v) == Cardinality({id \in docs : v \in KeywordValues(st[id], path)})

\* the bucket keys in response order: most documents first, equal counts by key
RECURSIVE BucketOrder(_, _, _, _)
BucketOrder(st, path, docs, keys) ==
    IF keys = {} THEN <<>>
    ELSE LET top == CHOOSE a \in keys : \A b \in keys \ {a} :
                        \/ BucketCount(st, path, docs, a) > BucketCount(st, path, docs, b)
                        \/ /\ BucketCount(st, path, docs, a) = BucketCount(st, path, docs, b)
                           /\ StrLess(a, b)
         IN  <<top>> \o BucketOrder(st, path, docs, keys \ {top})

\* the first n elements of a list
Take(l, n) == SubSeq(l, 1, IF n < Len(l) THEN n ELSE Len(l))

\* the documents the prefix query matches: those holding a value that
\* starts with the prefix
PrefixDocs(st, path, prefix) ==
    {id \in DOMAIN st : \E v \in KeywordValues(st[id], path) : StartsWith(v, prefix)}

\* the keys of the buckets of a terms aggregation over the matching
\* documents, at most agg_size of them
TermsBuckets(st, path, docs, agg_size) ==
    Take(BucketOrder(st, path, docs, UNION {KeywordValues(st[id], path) : id \in docs}), agg_size)

\* a facet list that is handed on as the cluster gave it
FacetValuesAsGiven(field, values, size) == values

\* what is made of the bucket keys: for court they are grouped through the
\* normaliser, sorted and cut to size
FacetValues(field, values, size) ==
    IF field = "court"
    THEN Take(SortStrings(Members(group_similar_court_names(values))), size)
    ELSE values

\* a faulty filter, kept to show what dropping the sentinels rules out:
\* every bucket key is kept
DropNothing(values) == values

\* the bucket keys that are kept: not empty, not "null", not "None"
DropSentinels(values) ==
    LET Kept(v) == v # <<>> /\ v # Str(<<"null">>, "L") /\ v # Str(<<"none">>, "T")
    IN  SelectSeq(values, Kept)

\* the field the aggregation runs on
AggField(field) ==
    IF field \in {"doc_type", "category"} THEN <<field, "keyword">> ELSE <<"metadata", field, "keyword">>

\* a failure of the cluster gives the empty list
get_metadata_field_values(field, prefix, size, cluster) ==
    /\ res' = [op |-> "distinct_values", field |-> field, prefix |-> prefix, size |-> size,
               cluster |-> cluster,
               out |-> IF cluster # "ok" THEN <<>>
                       ELSE FacetValues(field,
                                DropSentinels(
                                    TermsBuckets(store, AggField(field),
                                                 PrefixDocs(store, AggField(field), prefix),
                                                 IF field = "court" THEN size * 3 ELSE size)),
                                size)]
    /\ UNCHANGED <<store, bulk, index, pool>>

\* get_document_types: the doc_count of every bucket of a terms aggregation
\* on doc_type.keyword (the 100 buckets asked for hold every type here); the
\* empty dictionary on a failure of the cluster
DocTypeCounts(st, path) ==
    [v \in UNION {KeywordValues(st[id], path) : id \in DOMAIN st} |->
        Cardinality({id \in DOMAIN st : v \in KeywordValues(st[id], path)})]

\* the field get_document_types aggregates on
DocTypesField == <<"doc_type", "keyword">>

get_document_types(cluster) ==
    /\ res' = [op |-> "document_types", kind |-> "return", cluster |-> cluster,
               out |-> IF cluster # "ok" THEN <<>> ELSE DocTypeCounts(store, DocTypesField)]
    /\ UNCHANGED <<store, bulk, index, pool>>

TagArson == Str(<<"arson">>, "T")

TagBail == Str(<<"bail">>, "T")

JudgeSmith == Str(Spaced(<<"jane", "smith">>), "T")

TagBailRelease == Cased(<<"bail", "and", "pretrial", "release">>, {"and"})

\* LEGAL_TAGS_LIST: the controlled vocabulary, here the two of its entries
\* the model's tags are nearest to
LEGAL_TAGS_LIST == {TagArson, TagBailRelease}

\* partial metadata as a client sends it: values untrimmed, court as typed
PartialCourt == [court |-> StateKern, doc_type |-> "Order"]

PartialTags == [legal_tags |-> <<<<Space>> \o TagArson \o <<Space>>, TagBail>>,
                judge |-> JudgeSmith \o <<Space>>]

Partials == {PartialCourt, PartialTags}

\* how the cluster can fail a call
Failures == {"unreachable", "rejected", "malformed"}

\* the documents handed to index_document: each content first processed or
\* reprocessed, and one document whose hash attribute is unset
InputDocs ==
    {InputDoc(c, r, TRUE) : c \in 1..NumHashes, r \in BOOLEAN} \cup {InputDoc(1, FALSE, FALSE)}

\* the ids the write-path calls name
WriteIds == {<<"sha", c>> : c \in 1..NumHashes} \cup AutoIds

\* the step of POST /update-metadata that fails, if any
EndpointFailures == {"none", "exists", "update", "get"}

\* the search made next to the writes: everything, two hits a page
ProbeRequest == [DefaultRequest EXCEPT !.size = 2]

Next ==
    \/ \E d \in InputDocs, accepted \in BOOLEAN : index_document(d, accepted)
    \/ \E id \in WriteIds, p \in Partials, ok \in BOOLEAN : update_document_metadata(id, p, ok)
    \/ \E id \in WriteIds, ok \in BOOLEAN : get_document(id, ok)
    \/ \E id \in WriteIds, ok \in BOOLEAN : document_exists(id, ok)
    \/ \E id \in WriteIds, p \in Partials, f \in EndpointFailures :
           update_metadata_endpoint(id, p, f # "exists", f # "update", f # "get")
    \/ \E cluster \in {"ok", "unreachable"} : search_documents(ProbeRequest, cluster)

Spec == Init /\ [][Next]_vars

(***************************************************************************)
(* Bulk indexing: batches handed to bulk_index_documents, with single      *)
(* writes and a metadata update by other callers between two chunks.       *)
(***************************************************************************)
\* a batch of n documents, the k-th with the k-th content (contents repeat
\* after NumHashes); first_hashed says whether the first carries its hash
Batch(n, first_hashed) ==
    [k \in 1..n |-> InputDoc(((k - 1) % NumHashes) + 1, FALSE, k > 1 \/ first_hashed)]

BulkLists == {Batch(n, h) : n \in 1..MaxBulk, h \in BOOLEAN}

NextBulk ==
    \/ \E documents \in BulkLists, chunk_size \in 1..MaxChunk : bulk_start(documents, chunk_size)
    \/ \E raised \in BOOLEAN, rejected, applied \in SUBSET (1..MaxBulk) :
           bulk_chunk(raised, rejected, applied)
    \/ bulk_return
    \/ \E h \in BOOLEAN : index_document(InputDoc(1, TRUE, h), TRUE)
    \/ update_document_metadata(<<"sha", 1>>, PartialTags, TRUE)
    \/ search_documents(ProbeRequest, "ok")

SpecBulk == Init /\ [][NextBulk]_vars

(***************************************************************************)
(* Searching: a corpus is indexed and tagged, then searched through        *)
(* search_documents and through the two POST /search entry points.         *)
(***************************************************************************)
\* the tag lists the corpus documents are given through update_metadata
TagPartials ==
    {[legal_tags |-> <<TagArson>>], [legal_tags |-> <<TagBail>>],
     [legal_tags |-> <<<<Space>> \o TagArson \o <<Space>>, TagBail>>]}

\* a request filtering on the tags [arson, bail]
TagsRequest(legal_tags_match_all, query, sort_by) ==
    [DefaultRequest EXCEPT
        !.metadata_filters = <<[field |-> "legal_tags", value |-> ListV(<<TagArson, TagBail>>)]>>,
        !.legal_tags_match_all = legal_tags_match_all, !.query = query, !.sort_by = sort_by]

\* requests whose body cannot be built (a court that is not a string) or that
\* the engine rejects (a sort on a path that is not mapped)
BrokenRequests ==
    {[DefaultRequest EXCEPT !.metadata_filters = <<[field |-> "court", value |-> IntV(42)]>>,
                            !.size = 2, !.from_value = 1],
     [DefaultRequest EXCEPT !.sort_by = <<"metadata", "status">>, !.size = 2, !.from_value = 1]}

SearchRequests ==
    {TagsRequest(m, q, <<>>) : m \in BOOLEAN, q \in {<<>>, <<"dui">>}}
        \cup {TagsRequest(FALSE, <<>>, <<"created_at">>)}
        \cup BrokenRequests

\* what a client posts to /search: the fields it may set, here the page and
\* the page size
PostData(page, size) ==
    [query |-> <<>>, doc_type |-> "", fields |-> <<>>, date_range |-> <<>>,
     size |-> size, page |-> page, sort_by |-> <<>>, sort_order |-> "desc",
     use_fuzzy |-> FALSE, legal_tags_match_all |-> FALSE]

NextSearch ==
    \/ \E c \in 1..NumCorpus : index_document(InputDoc(c, FALSE, TRUE), TRUE)
    \/ \E c \in 1..NumCorpus, p \in TagPartials :
           update_document_metadata(<<"sha", c>>, p, TRUE)
    \/ \E rq \in SearchRequests, cluster \in {"ok"} \cup Failures : search_documents(rq, cluster)
    \/ \E page \in 1..MaxPage, size \in 1..MaxSize, cluster \in {"ok", "unreachable"} :
           search_endpoint_server(PostData(page, size), cluster)
    \/ \E page \in 1..MaxPage, size \in 1..MaxSize, cluster \in {"ok", "unreachable"} :
           search_endpoint_api(PostData(page, size), cluster)

SpecSearch == Init /\ [][NextSearch]_vars

(***************************************************************************)
(* Properties.                                                             *)
(***************************************************************************)
\* the legal tags a stored source carries
TagSetOf(source) ==
    IF "legal_tags" \in DOMAIN source.metadata
    THEN {source.metadata.legal_tags[k] : k \in DOMAIN source.metadata.legal_tags}
    ELSE {}

\* the ids of the hits of the cluster's response
HitIds(response) == IF response.failed THEN {} ELSE {response.hits[k].id : k \in DOMAIN response.hits}

\* the request filters on a list of legal tags
HasTagList(rq) ==
    /\ Len(rq.metadata_filters) = 1
    /\ rq.metadata_filters[1].field = "legal_tags"
    /\ rq.metadata_filters[1].value.kind = "list"

\* the tags a request asks for
AskedTags(rq) ==
    {rq.metadata_filters[1].value.items[k] : k \in DOMAIN rq.metadata_filters[1].value.items}

\* C1: after any sequence and interleaving of index_one and bulk_index
\* calls the index holds one stored document per content hash: the number
\* of stored documents equals the number of distinct hashes written.
C1_OnePerHash ==
    Cardinality(Stored) = Cardinality({store[i].hash : i \in Stored} \ {NoHash})

\* C2: a search whose body cannot be built, or that the cluster fails in any
\* way, returns {total: 0, hits: [], page_size: size, from: from_value} with
\* the caller's size and offset, raises nothing, and leaves the index as it was.
C2_SearchNeverRaises ==
    [][(/\ res'.op = "search"
        /\ \/ res'.cluster # "ok"
           \/ res'.response.failed)
       => /\ res'.kind = "return"
          /\ res'.out = [total |-> 0, hits |-> <<>>,
                         page_size |-> res'.rq.size, from |-> res'.rq.from_value]
          /\ store' = store]_vars

\* a failed search over a full corpus, asked from a non-zero offset
C2_Witness ==
    /\ res.op = "search"
    /\ res.cluster = "ok"
    /\ res.response.failed
    /\ res.rq.from_value = 1
    /\ res.out.total = 0
    /\ Cardinality(Stored) = NumCorpus

\* C3 (as stated): update_metadata with an id that is not stored gives the
\* caller a NotFoundError, an exception and not a boolean.
C3_RaisesNotFound ==
    (res.op = "update_metadata" /\ res.id \notin Stored) => res.kind = "raise"

\* C3 (amended): update_metadata with an id that is not stored raises
\* nothing: the handler returns False, POST /update-metadata answers 404,
\* and no document is created or changed.
C3_ReturnsFalse ==
    [][/\ (res'.op = "update_metadata" /\ res'.id \notin Stored)
           => (res'.kind = "return" /\ res'.ok = FALSE /\ store' = store)
       /\ (res'.op = "POST /update-metadata" /\ res'.id \notin Stored)
           => (res'.status = 404 /\ store' = store)]_vars

\* an update of an id that is not stored has returned, other documents
\* being stored
C3_Witness ==
    /\ res.op = "update_metadata"
    /\ res.id \notin Stored
    /\ res.kind = "return"
    /\ Stored # {}

\* C4: bulk_index isolates failures per chunk: whatever chunks raised or
\* had documents rejected, the loop goes on chunk by chunk to the end of the
\* list, so that every chunk is submitted, and every document accepted in a
\* chunk is stored.
C4_ChunkIsolation ==
    bulk.pc = "chunks" =>
        /\ bulk.i % bulk.chunk_size = 0
        /\ \A k \in DOMAIN bulk.log :
              /\ (bulk.log[k].outcome # "pending") <=> (k <= bulk.i)
              /\ bulk.log[k].outcome = "accepted" => bulk.log[k].id \in Stored

\* three chunks of one document, the second rejected: the loop is over and
\* the first and third documents are stored
C4_Witness ==
    /\ bulk.pc = "chunks"
    /\ bulk.chunk_size = 1
    /\ Len(bulk.actions) = 3
    /\ bulk.i >= 3
    /\ bulk.log[1].outcome = "accepted" /\ bulk.log[1].id \in Stored
    /\ bulk.log[2].outcome = "rejected"
    /\ bulk.log[3].outcome = "accepted" /\ bulk.log[3].id \in Stored
    /\ bulk.error_count = 1

\* C5: for a filter on a list T of legal tags, the documents returned are,
\* among those matching the other clauses, exactly those carrying every tag
\* of T (legal_tags_match_all true) or at least one tag of T (false).
C5_TagFilter ==
    [][(res'.op = "search" /\ res'.cluster = "ok" /\ HasTagList(res'.rq))
       => LET rq == res'.rq
              others == MatchIds(store, SearchBody([rq EXCEPT !.metadata_filters = <<>>]))
              asked == AskedTags(rq)
              wanted == {i \in others :
                            IF rq.legal_tags_match_all
                            THEN asked \subseteq TagSetOf(store[i])
                            ELSE asked \cap TagSetOf(store[i]) # {}}
          IN  /\ HitIds(res'.response) = wanted
              /\ {res'.out.hits[k].hash : k \in DOMAIN res'.out.hits} = wanted
              /\ res'.out.total = Cardinality(wanted)]_vars

\* documents tagged {arson}, {bail} and {arson, bail} are stored, and the
\* search for [arson, bail] with match_all returned one of them only
C5_Witness ==
    /\ res.op = "search" /\ res.cluster = "ok" /\ HasTagList(res.rq)
    /\ res.rq.legal_tags_match_all
    /\ res.rq.query = <<>>
    /\ {TagSetOf(store[i]) : i \in Stored} = {{TagArson}, {TagBail}, {TagArson, TagBail}}
    /\ res.out.total = 1
    /\ \A k \in DOMAIN res.out.hits : TagSetOf(res.out.hits[k]) = {TagArson, TagBail}

\* C6: for a list of legal tags in OR mode and no sort_by, with or without
\* a free-text query, the score of every hit is the number of requested tags
\* it carries, and no hit carrying more of them ranks below one carrying fewer.
C6_ScoreIsOverlap ==
    (/\ res.op = "search" /\ res.cluster = "ok" /\ HasTagList(res.rq)
     /\ ~res.rq.legal_tags_match_all /\ res.rq.sort_by = <<>>)
    => LET hits == res.response.hits
           overlap(k) == Cardinality(AskedTags(res.rq) \cap TagSetOf(hits[k].source))
       IN  /\ \A k \in DOMAIN hits : hits[k].score = overlap(k)
           /\ \A k, l \in DOMAIN hits : k < l => overlap(k) >= overlap(l)

\* C7: at every /search entry point the offset given to the engine, echoed
\* in the response, is (page - 1) * size, and over an unchanged index page p
\* and page p + 1 of a request share no hit.
C7_PageOffset ==
    /\ res.op = "POST /search" => res.out.from = (res.data.page - 1) * res.data.size
    /\ \A page \in 1..(MaxPage - 1), size \in 1..MaxSize :
          /\ HitIds(Response(store, ServerRequest(PostData(page, size)), "ok"))
                \cap HitIds(Response(store, ServerRequest(PostData(page + 1, size)), "ok")) = {}
          /\ HitIds(Response(store, ApiRequest(PostData(page, size)), "ok"))
                \cap HitIds(Response(store, ApiRequest(PostData(page + 1, size)), "ok")) = {}

\* C8: a successful update_metadata(id, partial) changes, of all that is
\* stored, only the metadata fields partial names and the top-level doc_type
\* and category when partial names them: no document is added, no other
\* document changes, and every other field of the document keeps its value.
C8_PartialMerge ==
    [][(res'.op = "update_metadata" /\ res'.ok)
       => LET id == res'.id
              partial == res'.args
          IN  /\ DOMAIN store' = DOMAIN store
              /\ \A j \in Stored \ {id} : store'[j] = store[j]
              /\ \A k \in DOMAIN store[id] \ {"metadata"} :
                    k \notin ({"doc_type", "category"} \cap DOMAIN partial)
                        => (k \in DOMAIN store'[id] /\ store'[id][k] = store[id][k])
              /\ \A k \in DOMAIN store[id].metadata \ DOMAIN partial :
                    /\ k \in DOMAIN store'[id].metadata
                    /\ store'[id].metadata[k] = store[id].metadata[k]]_vars

\* tags and a judge were merged into a classified document: its court, its
\* doc_type and its text are still there
C8_Witness ==
    /\ res.op = "update_metadata" /\ res.ok
    /\ res.args = PartialTags
    /\ res.id \in Stored
    /\ store[res.id].metadata.legal_tags = <<TagArson, TagBail>>
    /\ store[res.id].metadata.judge = JudgeSmith
    /\ store[res.id].metadata.court = normalize_court_name(UpperKern)
    /\ store[res.id].doc_type = "Motion"

\* C9: every stored document's id is its content hash: index_one writes
\* under the document's hash and returns that id, and directly after it
\* returns the document is stored under the id returned.
C9_IdIsHash ==
    /\ \A i \in Stored : store[i].hash = i
    /\ (res.op = "index_one" /\ res.kind = "return")
           => (res.id = res.hash /\ res.id \in Stored)

\* a document is written (or written again) by this step's call
Indexes(i) ==
    \/ /\ res'.op = "index_one" /\ res'.kind = "return" /\ res'.id = i
       /\ UNCHANGED bulk
    \/ /\ bulk.pc = "chunks" /\ bulk'.pc = "chunks" /\ UNCHANGED res
       /\ \E k \in DOMAIN bulk.log :
             bulk.log[k].outcome = "pending" /\ bulk'.log[k].id = i

\* a document's metadata is updated by this step's call
Updates(i) ==
    /\ res'.op \in {"update_metadata", "POST /update-metadata"}
    /\ res'.id = i
    /\ UNCHANGED bulk

\* C10 (as stated): a stored document changes only through update_metadata:
\* no index_one, bulk_index or search call alters any of its fields.
C10_OnlyUpdateChanges ==
    [][\A i \in Stored : store'[i] # store[i] => Updates(i)]_vars

\* C10 (amended): a stored document changes only through update_metadata for
\* its id or through a later index_one or bulk_index write under its id,
\* which replaces it whole; no other call, and no search, alters it, and
\* nothing removes it.
C10_OnlyWritesChange ==
    [][/\ Stored \subseteq DOMAIN store'
       /\ \A i \in Stored : store'[i] # store[i] => (Updates(i) \/ Indexes(i))]_vars

\* a document accepted by bulk_index was indexed again by index_one while
\* the batch was still running: what is stored is no longer what the batch wrote
C10_Witness ==
    /\ bulk.pc = "chunks"
    /\ res.op = "index_one" /\ res.kind = "return"
    /\ \E k \in DOMAIN bulk.log :
          /\ bulk.log[k].outcome = "accepted"
          /\ bulk.log[k].id = res.id
          /\ store[res.id] # bulk.actions[k].source

(***************************************************************************)
(* Facets: documents are indexed with their court spelled in several ways, *)
(* then the distinct courts are asked for.                                 *)
(***************************************************************************)
SupremeShort == Cased(<<"supreme", "court", "of", "california">>, {"of"})

\* the corpus document with content c, its court as the file spells it
CourtDoc(c, court) == [InputDoc(c, FALSE, TRUE) EXCEPT !.metadata.court = court]

\* spellings of the Kern and Los Angeles superior courts and of the supreme court
FacetCourts ==
    {UpperKern, StateKern, SupremeLower, SupremeShort,
     Cased(<<"superior", "court", "of", "california", ",", "county", "of", "los", "angeles">>, {"of"})}

FacetPrefixes == {<<>>, Cased(<<"supreme">>, {})}

NextFacets ==
    \/ \E c \in 1..NumCorpus, court \in FacetCourts : index_document(CourtDoc(c, court), TRUE)
    \/ \E field \in {"court", "doc_type"}, prefix \in FacetPrefixes, size \in 1..MaxSize,
          cluster \in {"ok", "unreachable"} :
           get_metadata_field_values(field, prefix, size, cluster)

SpecFacets == Init /\ [][NextFacets]_vars

(***************************************************************************)
(* Dates: documents are indexed, given their legal date through            *)
(* update_metadata, and searched by date range.  A date is a day number;   *)
(* 0 stands for the empty string of a bound that is not set.               *)
(***************************************************************************)
\* the last day a document is dated or a range is bounded by
MaxDay == 3

\* the date_range dictionaries a client sends: none, either key, both keys
DateRanges ==
    {<<>>}
        \cup {[start |-> a] : a \in 0..MaxDay}
        \cup {[end |-> b] : b \in 0..MaxDay}
        \cup {[start |-> a, end |-> b] : a, b \in 0..MaxDay}

DateRequest(date_range) == [DefaultRequest EXCEPT !.date_range = date_range]

NextDates ==
    \/ \E c \in 1..NumHashes, r \in BOOLEAN : index_document(InputDoc(c, r, TRUE), TRUE)
    \/ \E c \in 1..NumHashes, d \in 1..MaxDay :
           update_document_metadata(<<"sha", c>>, [timestamp |-> IsoFormat(d)], TRUE)
    \/ \E date_range \in DateRanges : search_documents(DateRequest(date_range), "ok")

SpecDates == Init /\ [][NextDates]_vars

(***************************************************************************)
(* Courts and judges: an index that also holds documents written by the    *)
(* handler of Documents/, which stores the court as the file spells it, is *)
(* searched by court and by judge.                                         *)
(***************************************************************************)
\* index_document of Documents/elasticsearch_handler.py: the document's
\* dictionary is stored under its hash as it is; True, or False on an error
index_document_legacy(document, accepted) ==
    /\ document.hash # NoHash
    /\ store' = IF accepted THEN EsIndex(store, document.hash, DocumentToDict(document)) ELSE store
    /\ res' = [op |-> "index_legacy", kind |-> "return", ok |-> accepted, id |-> document.hash]
    /\ UNCHANGED <<bulk, index, pool>>

JusticeLower == Str(Spaced(<<"county", "of", "orange", ",", "central", "justice", "center">>), "L")

JusticeMixed == Cased(<<"county", "of", "orange", ",", "central", "justice", "center">>, {"of"})

\* court spellings found in files and typed into the court filter
CourtSpellings == {UpperKern, StateKern, JusticeLower, JusticeMixed}

\* a judge's name followed by a title
JudgeSmithTitle == JudgeSmith \o <<Comma, Space>> \o Str(<<"judge">>, "T")

\* a request with one metadata filter
FilterRequest(field, value) ==
    [DefaultRequest EXCEPT !.metadata_filters = <<[field |-> field, value |-> value]>>]

CourtRequests ==
    {FilterRequest("court", StrV(v)) : v \in CourtSpellings}
        \cup {FilterRequest("court", ListV(<<v>>)) : v \in CourtSpellings}
        \cup {FilterRequest("court", ListV(<<UpperKern, JusticeLower>>))}

JudgeRequests == {FilterRequest("judge", StrV(v)) : v \in {JudgeSmith, JudgeSmithTitle}}

NextCourts ==
    \/ \E c \in 1..NumHashes, court \in CourtSpellings, accepted \in BOOLEAN :
           index_document_legacy(CourtDoc(c, court), accepted)
    \/ \E c \in 1..NumHashes, court \in CourtSpellings : index_document(CourtDoc(c, court), TRUE)
    \/ \E c \in 1..NumHashes, judge \in {JudgeSmith, JudgeSmithTitle \o <<Space>>} :
           update_document_metadata(<<"sha", c>>, [judge |-> judge], TRUE)
    \/ \E rq \in CourtRequests \cup JudgeRequests : search_documents(rq, "ok")

SpecCourts == Init /\ [][NextCourts]_vars

\* C11: after any sequence of index_one, bulk_index and update_metadata
\* calls every legal tag of every stored document is a member of the
\* controlled vocabulary.
C11_TagsInVocabulary ==
    \A i \in Stored : TagSetOf(store[i]) \subseteq LEGAL_TAGS_LIST

\* this step's call wrote, under the id it returns, a document whose court
\* was given as raw
CourtWritten(raw) ==
    \/ /\ res'.op = "update_metadata" /\ res'.ok
       /\ Get(res'.args, "court", None) = raw
    \/ /\ res'.op = "index_one" /\ res'.kind = "return"
       /\ \E d \in InputDocs :
             d.metadata.court = raw /\ store'[res'.id] = NormalizeCourtOf(DocumentToDict(d))

\* the name-valued metadata fields of a stored source that hold this string
FieldsHolding(source, s) ==
    {k \in DOMAIN source.metadata \cap
              {"court", "judge", "subject", "status", "case_name", "case_number", "author"} :
        source.metadata[k] = s}

\* C12: a document written with a non-empty court stores normalize(raw
\* court) as its court, and the raw court string is still held by the stored
\* document.
C12_CourtNormalizedRawKept ==
    [][\A raw \in {UpperKern, StateKern} :
          CourtWritten(raw)
              => /\ store'[res'.id].metadata.court = normalize_court_name(raw)
                 /\ FieldsHolding(store'[res'.id], raw) # {}]_vars

(***************************************************************************)
(* The normaliser on its own: normalize_court_name and                     *)
(* group_similar_court_names called on court names as documents and        *)
(* clients spell them.                                                     *)
(***************************************************************************)
\* longest list handed to group_similar_court_names
MaxNames == 2

\* a name written in one casing: all upper ("U"), all lower ("L"), every
\* word capitalised ("T"), or capitalised with "of" and "the" in lower case ("M")
CaseAs(ws, k) == IF k = "M" THEN Cased(ws, {"of", "the"}) ELSE Str(Spaced(ws), k)

Casings == {"U", "L", "T", "M"}

\* the wordings of "of [[the] State of] California"
Wordings == {<<>>, <<"state", "of">>, <<"the", "state", "of">>}

Counties == {<<"kern">>, <<"los", "angeles">>}

\* "Superior Court of [[the] State of] California[,] County of <county>"
SuperiorName(k, wording, comma, county) ==
    CaseAs(<<"superior", "court", "of">> \o wording \o <<"california">>
               \o (IF comma THEN <<",">> ELSE <<>>) \o <<"county", "of">> \o county, k)

SuperiorNames ==
    {SuperiorName(k, w, c, county) : k \in Casings, w \in Wordings, c \in BOOLEAN, county \in Counties}

\* other courts: the supreme court, a court of appeal, a division, a justice
\* center, and what a missing court looks like
OtherNames ==
    {<<>>, None, <<Space>>, SupremeLower,
     CaseAs(<<"supreme", "court", "of", "california">>, "M"),
     CaseAs(<<"court", "of", "appeal", "of", "the", "state", "of", "california", ",", "second", "district">>, "U"),
     CaseAs(<<"appellate", "division">>, "M"),
     <<Space>> \o CaseAs(<<"county", "of", "orange", ",", "central", "justice", "center">>, "M")}

\* the names lists are drawn from
GroupNames ==
    {SuperiorName(k, <<>>, TRUE, <<"kern">>) : k \in {"U", "M"}}
        \cup {SuperiorName("L", <<"the", "state", "of">>, TRUE, county) : county \in Counties}
        \cup {SupremeLower, CaseAs(<<"supreme", "court", "of", "california">>, "M"),
              CaseAs(<<"appellate", "division">>, "M")}

RECURSIVE ListsOver(_, _)
ListsOver(S, n) ==
    IF n = 0 THEN {<<>>}
    ELSE ListsOver(S, n - 1) \cup {Append(l, x) : l \in {m \in ListsOver(S, n - 1) : Len(m) = n - 1}, x \in S}

call_normalize_court_name(court_name) ==
    /\ res' = [op |-> "normalize", name |-> court_name, out |-> normalize_court_name(court_name)]
    /\ UNCHANGED <<store, bulk, index, pool>>

call_group_similar_court_names(court_names) ==
    /\ res' = [op |-> "group_similar", names |-> court_names,
               out |-> group_similar_court_names(court_names)]
    /\ UNCHANGED <<store, bulk, index, pool>>

NextNormalizer ==
    \/ \E name \in SuperiorNames \cup OtherNames : call_normalize_court_name(name)
    \/ \E names \in ListsOver(GroupNames, MaxNames) : call_group_similar_court_names(names)

SpecNormalizer == Init /\ [][NextNormalizer]_vars

\* C15: normalize gives one output for the spellings of a California
\* Superior Court name that differ only in letter case or in the optional
\* "(the) State of" wording; it returns a string for every input, and the
\* empty string for the empty string.
C15_NormalizeConverges ==
    res.op = "normalize" =>
        /\ \A k \in Casings, w \in Wordings, c \in BOOLEAN, county \in Counties :
              res.name = SuperiorName(k, w, c, county)
                  => \A k2 \in Casings, w2 \in Wordings :
                         normalize_court_name(SuperiorName(k2, w2, c, county)) = res.out
        /\ res.name = <<>> => res.out = <<>>
        /\ res.out # None /\ \A i \in DOMAIN res.out : res.out[i].k \in {"T", "L", "P"}

\* the all-capitals "of the State of" spelling of the Los Angeles court came
\* out as the canonical name
C15_Witness ==
    /\ res.op = "normalize"
    /\ res.name = SuperiorName("U", <<"the", "state", "of">>, TRUE, <<"los", "angeles">>)
    /\ res.out = Cased(<<"superior", "court", "of", "california", ",", "county", "of", "los", "angeles">>, {"of"})
    /\ res.out = normalize_court_name(SuperiorName("M", <<>>, TRUE, <<"los", "angeles">>))

\* the lists a list's elements can be arranged in
Arrangements(l) ==
    {[i \in DOMAIN l |-> l[p[i]]] :
        p \in {q \in [DOMAIN l -> DOMAIN l] : \A i, j \in DOMAIN l : q[i] = q[j] => i = j}}

\* C14: group_similar gives the same set of names for every arrangement of
\* its input, and gives its own output back when applied to it.
C14_GroupOrderIdempotent ==
    res.op = "group_similar" =>
        /\ \A l \in Arrangements(res.names) :
              Members(group_similar_court_names(l)) = Members(res.out)
        /\ Members(group_similar_court_names(res.out)) = Members(res.out)

\* the courts the stored documents carry
StoredCourts == UNION {KeywordValues(store[i], <<"metadata", "court", "keyword">>) : i \in Stored}

\* C13: after documents are indexed with their court spelled in variants,
\* distinct_values("court") lists no value twice and no court twice, and,
\* when the size asked for does not cut the list, lists every stored
\* court under exactly one canonical value.
C13_OneValuePerCourt ==
    (res.op = "distinct_values" /\ res.field = "court" /\ res.prefix = <<>> /\ res.cluster = "ok")
        => /\ \A i, j \in DOMAIN res.out :
                 normalize_court_name(res.out[i]) = normalize_court_name(res.out[j]) => i = j
           /\ (Cardinality(StoredCourts) <= 3 * res.size
                 /\ Cardinality({normalize_court_name(c) : c \in StoredCourts}) <= res.size)
                 => \A c \in StoredCourts :
                        Cardinality({i \in DOMAIN res.out :
                            normalize_court_name(res.out[i]) = normalize_court_name(c)}) = 1

\* the Kern court was indexed in two spellings and the supreme court in
\* two: the list has one value for each
C13_Witness ==
    /\ res.op = "distinct_values" /\ res.field = "court" /\ res.prefix = <<>> /\ res.cluster = "ok"
    /\ Cardinality(Stored) = 3
    /\ Cardinality(StoredCourts) = 3
    /\ Len(res.out) = 2
    /\ res.out[1] = normalize_court_name(UpperKern)
    /\ normalize_court_name(SupremeLower) \in StoredCourts
    /\ normalize_court_name(SupremeShort) \in StoredCourts

\* the stored documents whose legal date lies within the bounds that are set
DatedWithin(date_range) ==
    {i \in Stored :
        /\ store[i].metadata.timestamp # NoTime
        /\ Get(date_range, "start", 0) # 0
              => store[i].metadata.timestamp[2] >= date_range.start
        /\ Get(date_range, "end", 0) # 0
              => store[i].metadata.timestamp[2] <= date_range.end}

\* C16: a search with a date_range returns exactly the documents whose
\* metadata.timestamp lies between the bounds that are set, the bounds
\* included; a bound that is missing or empty restricts nothing; created_at
\* plays no part.
C16_DateRangeInclusive ==
    (res.op = "search" /\ res.cluster = "ok" /\ DOMAIN res.rq.date_range # {})
        => HitIds(res.response) = DatedWithin(res.rq.date_range)

\* a search from day 2 to day 3 returned a document dated 2 and one dated 3
\* (both processed on day 1)
C16_Witness ==
    /\ res.op = "search" /\ res.cluster = "ok"
    /\ res.rq.date_range = [start |-> 2, end |-> 3]
    /\ Cardinality(HitIds(res.response)) = 2
    /\ \E i, j \in HitIds(res.response) :
          /\ store[i].metadata.timestamp = IsoFormat(2)
          /\ store[j].metadata.timestamp = IsoFormat(3)
          /\ store[i].created_at = IsoFormat(1)

\* the request carries one filter, on this field
FiltersOn(rq, field) ==
    Len(rq.metadata_filters) = 1 /\ rq.metadata_filters[1].field = field

\* the strings a filter value names
FilterStrings(value) ==
    IF value.kind = "list" THEN Members(value.items)
    ELSE IF value.kind = "str" THEN {value.s} ELSE {}

\* C17: a search filtering on judge = v returns the documents whose stored
\* judge equals v or holds every token of v, so that a stored judge with a
\* trailing title is matched.
C17_JudgeLooseMatch ==
    (res.op = "search" /\ res.cluster = "ok" /\ FiltersOn(res.rq, "judge"))
        => \A v \in FilterStrings(res.rq.metadata_filters[1].value) :
               HitIds(res.response) =
                   {i \in Stored :
                       \/ store[i].metadata.judge = v
                       \/ /\ store[i].metadata.judge # None
                          /\ Members(AnalyzedWords(v)) \subseteq Members(AnalyzedWords(store[i].metadata.judge))}

\* C18: a search filtering on court = v (a string or a list holding v)
\* returns every document whose stored court r, normalised or not,
\* satisfies normalize(r) = normalize(v).
C18_CourtCompensates ==
    (res.op = "search" /\ res.cluster = "ok" /\ FiltersOn(res.rq, "court"))
        => \A v \in FilterStrings(res.rq.metadata_filters[1].value) :
               \A i \in Stored :
                   (/\ store[i].metadata.court # None
                    /\ normalize_court_name(store[i].metadata.court) = normalize_court_name(v))
                       => i \in HitIds(res.response)

(***************************************************************************)
(* The index: create_index is called, by any number of handlers and with   *)
(* any mapping, on a cluster where the index is absent or present; single  *)
(* documents are written in between.                                       *)
(***************************************************************************)
Mappings == {NoMapping, ES_DOCUMENT_MAPPING, CustomMapping}

\* the index before the first call: absent, or there under some mapping
InitIndex ==
    /\ store = [i \in {} |-> <<>>]
    /\ bulk = BulkIdle
    /\ res = [op |-> "none"]
    /\ index \in {NoIndex, Index(ES_DOCUMENT_MAPPING), Index(CustomMapping)}
    /\ pool = PoolIdle

NextIndex ==
    \/ \E mapping \in Mappings, cluster \in ClusterOutcomes : create_index(mapping, cluster)
    \/ \E document \in InputDocs, accepted \in BOOLEAN : index_document(document, accepted)

SpecIndex == InitIndex /\ [][NextIndex]_vars

\* a cluster error struck the call: indices.exists raised, or indices.create did
CreateErred(call) ==
    call.cluster = "exists_fails" \/ (call.cluster = "create_fails" /\ ~call.before.exists)

\* C19: create_index always returns; when the index was absent and the
\* cluster answers, the index is created with the given mapping (the fixed
\* one when none is given) and True is returned; when it existed no create
\* is issued, the index and its mapping are as before and True is returned
\* unless the cluster erred; a cluster error gives False and leaves the index
\* as it was; after a call that returned True any further call, with any
\* mapping, leaves the index as it is.
C19_CreateIndexIdempotent ==
    res.op = "create_index" =>
        /\ res.kind = "return"
        /\ res.out \in BOOLEAN
        /\ (~res.before.exists /\ res.cluster = "ok")
               => /\ index = Index(IF res.mapping = NoMapping THEN ES_DOCUMENT_MAPPING
                                   ELSE res.mapping)
                  /\ res.created /\ res.out
        /\ res.before.exists => (index = res.before /\ ~res.created)
        /\ (res.before.exists /\ ~CreateErred(res)) => res.out
        /\ CreateErred(res) => (~res.out /\ index = res.before)
        /\ res.out => /\ index.exists
                      /\ \A mapping \in Mappings : IndexAfter(index, mapping, "ok") = index

\* an index that holds documents under another mapping is left as it is by a
\* call that asks for the fixed mapping
C19_Witness ==
    /\ res.op = "create_index" /\ res.out
    /\ res.before = Index(CustomMapping) /\ res.mapping = NoMapping
    /\ Stored # {}

(***************************************************************************)
(* Processing runs: directories, some with files of identical bytes, are   *)
(* processed one run after the other.                                      *)
(***************************************************************************)
\* most files in a directory
MaxFiles == 2

\* largest batch_size tried
MaxBatch == 2

\* the directories: the contents of their files, in the order the walk finds them
Directories == UNION {[1..n -> 1..NumHashes] : n \in 1..MaxFiles}

NextPool ==
    \/ \E files \in Directories, batch_size \in 1..MaxBatch, skip_existing \in BOOLEAN :
           process_directory(files, batch_size, skip_existing)
    \/ \E k \in 1..MaxFiles, cluster_ok, has_text \in BOOLEAN : process_file(k, cluster_ok, has_text)
    \/ \E k \in 1..MaxFiles : process_file_return(k)
    \/ \E k \in 1..MaxFiles : as_completed(k)
    \/ loop_end
    \/ batch_indexed
    \/ batch_counted
    \/ \E raised \in BOOLEAN, rejected, applied \in SUBSET (1..MaxFiles) :
           bulk_chunk(raised, rejected, applied)
    \/ bulk_return

SpecPool == Init /\ [][NextPool]_vars

\* the positions of the bulk call whose action the cluster applies in this step
WrittenNow ==
    IF bulk.pc = "chunks" /\ bulk'.pc = "chunks"
    THEN {k \in DOMAIN bulk.log : bulk.log[k].outcome = "pending" /\ bulk'.log[k].id # NoHash}
    ELSE {}

\* C20: in a run with skip_existing whose existence checks were all
\* answered, every write to the index is the first write of its hash: the
\* hash was not stored before the step, and no other action applied in the
\* same step carries it.
C20_HashWrittenOnce ==
    [][(pool.pc # "idle" /\ pool.skip_existing /\ ~pool.unanswered)
           => /\ \A k \in WrittenNow : bulk'.log[k].id \notin Stored
              /\ \A j, k \in WrittenNow : bulk'.log[j].id = bulk'.log[k].id => j = k]_vars

(***************************************************************************)
(* Types and scalar fields: documents are indexed with their type, given a *)
(* status and a case number through update_metadata, then searched by      *)
(* type, by status and by case number, and counted by type.                *)
(***************************************************************************)
StatusGranted == Str(<<"granted">>, "T")

CaseNumberOne == Str(<<"cr-1">>, "U")

DocTypes == {"Motion", "unknown"}

ScalarPartials == {[status |-> StatusGranted], [case_number |-> CaseNumberOne]}

TypeRequests ==
    {[DefaultRequest EXCEPT !.doc_type = t] : t \in DocTypes}
        \cup {FilterRequest("status", StrV(StatusGranted)),
              FilterRequest("case_number", StrV(CaseNumberOne))}

NextTypes ==
    \/ \E c \in 1..NumHashes, r \in BOOLEAN : index_document(InputDoc(c, r, TRUE), TRUE)
    \/ \E c \in 1..NumHashes, partial \in ScalarPartials :
           update_document_metadata(<<"sha", c>>, partial, TRUE)
    \/ \E rq \in TypeRequests : search_documents(rq, "ok")
    \/ \E cluster \in {"ok", "down"} : get_document_types(cluster)

SpecTypes == Init /\ [][NextTypes]_vars

\* C21: over an index with the fixed mapping, a search with doc_type = T
\* returns the stored documents whose doc_type is T, a search filtering on
\* status or case_number returns the documents holding the value, and
\* get_document_types gives, for every type stored, the number of
\* documents of that type.
C21_MappedFieldsFound ==
    /\ index = Index(ES_DOCUMENT_MAPPING)
    /\ (res.op = "search" /\ res.cluster = "ok" /\ res.rq.doc_type # "")
           => HitIds(res.response) = {i \in Stored : store[i].doc_type = res.rq.doc_type}
    /\ (res.op = "search" /\ res.cluster = "ok" /\ FiltersOn(res.rq, "status"))
           => HitIds(res.response) =
                  {i \in Stored : store[i].metadata.status \in FilterStrings(res.rq.metadata_filters[1].value)}
    /\ (res.op = "search" /\ res.cluster = "ok" /\ FiltersOn(res.rq, "case_number"))
           => HitIds(res.response) =
                  {i \in Stored : store[i].metadata.case_number \in FilterStrings(res.rq.metadata_filters[1].value)}
    /\ (res.op = "document_types" /\ res.cluster = "ok")
           => res.out = [t \in {store[i].doc_type : i \in Stored} |->
                            Cardinality({i \in Stored : store[i].doc_type = t})]

(***************************************************************************)
(* Text queries: a corpus is indexed, some of it given a judge and tags,   *)
(* and searched with and without operators, fuzzy and not, alone and next  *)
(* to filters.                                                             *)
(***************************************************************************)
TextQueries ==
    {<<>>, <<"dui">>, <<"dwi">>, <<"dui", "dwi">>, <<"dui", "OR", "dwi">>, <<"dui", "AND", "dwi">>,
     <<"ORDER">>, <<"dui", "*">>, <<"dui", "~">>, <<"\"", "dui", "\"">>}

TextRequests ==
    {[DefaultRequest EXCEPT !.query = q, !.use_fuzzy = f] : q \in TextQueries, f \in BOOLEAN}
        \cup {[FilterRequest("judge", StrV(JudgeSmith)) EXCEPT !.query = q, !.use_fuzzy = f] :
                 q \in {<<>>, <<"dui">>}, f \in BOOLEAN}
        \cup {[TagsRequest(FALSE, q, <<>>) EXCEPT !.use_fuzzy = f] :
                 q \in {<<"dui">>, <<"dui", "OR", "dwi">>}, f \in BOOLEAN}

NextText ==
    \/ \E c \in 1..NumCorpus : index_document(InputDoc(c, FALSE, TRUE), TRUE)
    \/ \E partial \in {[judge |-> JudgeSmith], [legal_tags |-> <<TagArson>>]} :
           update_document_metadata(<<"sha", 1>>, partial, TRUE)
    \/ \E rq \in TextRequests : search_documents(rq, "ok")

SpecText == Init /\ [][NextText]_vars

\* the text clauses among the must clauses of a body
TextClausesOf(body) ==
    LET IsText(c) == c.kind \in {"query_string", "multi_match"}
    IN  SelectSeq(body.must, IsText)

\* the stored documents that hold the term in one of the searched fields
Holding(term) ==
    {i \in Stored : \E f \in TextFields : term \in Members(FieldTerms(store[i], f))}

\* C22: the text clauses of a request are those of the request that carries
\* only its query and use_fuzzy.  No query gives none (and with no filter
\* the body matches everything); a query in which OR, AND, a double quote, *
\* or ~ occurs gives one expression-mode clause; any other query gives one
\* best-fields clause with automatic fuzziness when use_fuzzy is set, else
\* an all-terms best-fields clause and a phrase clause boosted by 2, both in
\* must.  A non-fuzzy search for dui returns only documents that hold dui.
C22_TextClauseSelection ==
    (res.op = "search" /\ res.cluster = "ok")
        => LET rq == res.rq
               text == TextClausesOf(SearchBody(rq))
               operators == \E op \in {<<"O", "R">>, <<"A", "N", "D">>, <<"\"">>, <<"*">>, <<"~">>} :
                                Contains(QueryChars(rq.query), op)
           IN  /\ text = SearchBody([DefaultRequest EXCEPT !.query = rq.query,
                                                          !.use_fuzzy = rq.use_fuzzy]).must
               /\ rq.query = <<>> => text = <<>>
               /\ (rq.query = <<>> /\ rq.metadata_filters = <<>>)
                      => HitIds(res.response) = Stored
               /\ (rq.query # <<>> /\ operators)
                      => Len(text) = 1 /\ text[1].kind = "query_string"
               /\ (rq.query # <<>> /\ ~operators /\ rq.use_fuzzy)
                      => /\ Len(text) = 1
                         /\ text[1].kind = "multi_match" /\ text[1].type = "best_fields"
                         /\ text[1].fuzziness = "AUTO"
               /\ (rq.query # <<>> /\ ~operators /\ ~rq.use_fuzzy)
                      => /\ Len(text) = 2
                         /\ text[1].kind = "multi_match" /\ text[1].type = "best_fields"
                         /\ text[1].operator = "and" /\ text[1].fuzziness = "0"
                         /\ text[2].kind = "multi_match" /\ text[2].type = "phrase"
                         /\ text[2].boost = 2
                         /\ \A term \in Members(rq.query) : HitIds(res.response) \subseteq Holding(term)
               /\ (rq.query = <<"dui">> /\ rq.metadata_filters = <<>>)
                      => IF rq.use_fuzzy THEN HitIds(res.response) = Holding("dui") \cup Holding("dwi")
                         ELSE HitIds(res.response) = Holding("dui")

\* a non-fuzzy search for dui over a corpus that holds a document with dwi
\* only returned the documents with dui and not that one
C22_Witness ==
    /\ res.op = "search" /\ res.cluster = "ok"
    /\ res.rq.query = <<"dui">> /\ ~res.rq.use_fuzzy /\ res.rq.metadata_filters = <<>>
    /\ <<"sha", 3>> \in Stored /\ <<"sha", 3>> \notin HitIds(res.response)
    /\ <<"sha", 1>> \in HitIds(res.response)

(***************************************************************************)
(* Sorting: documents are indexed, dated through update_metadata, and      *)
(* searched with the sort keys a client may name.                          *)
(***************************************************************************)
SortKeys ==
    {<<>>, <<"created_at">>, <<"metadata", "timestamp">>, <<"metadata", "case_name">>,
     <<"metadata", "judge", "keyword">>, <<"file_name">>, <<"metadata", "status">>,
     <<"doc_type">>, <<"keyword">>}

SortRequests ==
    {[DefaultRequest EXCEPT !.sort_by = sort_by, !.sort_order = sort_order] :
        sort_by \in SortKeys, sort_order \in {"asc", "desc"}}

NextSort ==
    \/ \E c \in 1..NumHashes, r \in BOOLEAN : index_document(InputDoc(c, r, TRUE), TRUE)
    \/ \E c \in 1..NumHashes, d \in 1..MaxDay :
           update_document_metadata(<<"sha", c>>, [timestamp |-> IsoFormat(d)], TRUE)
    \/ \E rq \in SortRequests : search_documents(rq, "ok")

SpecSort == Init /\ [][NextSort]_vars

\* the sort clause is on this field, in the order the request names
SortsOn(body, field, sort_order) ==
    body.sort = <<[field |-> field, order |-> sort_order]>>

\* C23: a request without sort_by carries no sort clause; sort_by =
\* created_at sorts on metadata.timestamp; metadata.timestamp and a key that
\* ends in .keyword are taken as they are; any other key gets .keyword
\* appended once; sort_order is handed on; and the field sorted on is one
\* the index with the fixed mapping can sort on, so that the search answers.
C23_SortKeySelection ==
    (res.op = "search" /\ res.cluster = "ok")
        => LET rq == res.rq
               body == SearchBody(rq)
               sort_by == rq.sort_by
           IN  /\ sort_by = <<>> => body.sort = <<>>
               /\ sort_by = <<"created_at">>
                      => SortsOn(body, <<"metadata", "timestamp">>, rq.sort_order)
               /\ (sort_by = <<"metadata", "timestamp">>
                       \/ (Len(sort_by) > 1 /\ sort_by[Len(sort_by)] = "keyword"))
                      => SortsOn(body, sort_by, rq.sort_order)
               /\ (/\ sort_by \notin {<<>>, <<"created_at">>, <<"metadata", "timestamp">>}
                   /\ ~(Len(sort_by) > 1 /\ sort_by[Len(sort_by)] = "keyword"))
                      => SortsOn(body, sort_by \o <<"keyword">>, rq.sort_order)
               /\ sort_by # <<>>
                      => /\ FieldType(body.sort[1].field) \in {"keyword", "date", "integer"}
                         /\ ~res.response.failed

\* the positions of the list submitted in this step
SubmittedNow ==
    IF bulk.pc = "chunks" /\ bulk'.pc = "chunks"
    THEN {k \in DOMAIN bulk.log : bulk.log[k].outcome = "pending" /\ bulk'.log[k].outcome # "pending"}
    ELSE {}

\* C24: every pass of the chunk loop submits the documents that follow
\* those submitted so far, chunk_size of them or, at the end of the list,
\* those that are left; what was submitted before is not submitted again;
\* a pass begins only when the one before is over; and when the call
\* returns every document has been submitted, in ceil(N / chunk_size) passes.
C24_ChunkPartition ==
    [][/\ (bulk.pc = "chunks" /\ bulk'.pc = "chunks" /\ bulk' # bulk)
              => LET n == Len(bulk.actions)
                     last == IF bulk.i + bulk.chunk_size < n THEN bulk.i + bulk.chunk_size ELSE n
                 IN  /\ \A k \in DOMAIN bulk.log : bulk.log[k].outcome = "pending" <=> k > bulk.i
                     /\ SubmittedNow = (bulk.i + 1)..last
                     /\ SubmittedNow # {}
                     /\ last < n => Cardinality(SubmittedNow) = bulk.chunk_size
                     /\ \A k \in DOMAIN bulk.log \ SubmittedNow : bulk'.log[k] = bulk.log[k]
                     /\ bulk'.i = bulk.i + bulk.chunk_size
                     /\ bulk'.actions = bulk.actions /\ bulk'.chunk_size = bulk.chunk_size
       /\ (bulk.pc = "chunks" /\ bulk'.pc = "idle")
              => LET n == Len(bulk.actions)
                 IN  /\ \A k \in DOMAIN bulk.log : bulk.log[k].outcome # "pending"
                     /\ bulk.i \div bulk.chunk_size = (n + bulk.chunk_size - 1) \div bulk.chunk_size
                     /\ bulk.i % bulk.chunk_size = 0]_vars

\* three documents in chunks of two: after two passes, of two documents and
\* of one, the list is through
C24_Witness ==
    /\ bulk.pc = "chunks"
    /\ Len(bulk.actions) = 3 /\ bulk.chunk_size = 2
    /\ bulk.i = 4
    /\ \A k \in DOMAIN bulk.log : bulk.log[k].outcome # "pending"

(***************************************************************************)
(* Field values: documents are indexed with a court, given a judge through *)
(* update_metadata (some of them the strings "null" and "None"), and the   *)
(* values of a field are listed.                                           *)
(***************************************************************************)
NullString == Str(<<"null">>, "L")

NoneString == Str(<<"none">>, "T")

ValueCourts == {UpperKern, SupremeShort, Str(<<"none">>, "L")}

ValueJudges == {JudgeSmith, NullString, NoneString}

NextValues ==
    \/ \E c \in 1..NumHashes, court \in ValueCourts : index_document(CourtDoc(c, court), TRUE)
    \/ \E c \in 1..NumHashes, judge \in ValueJudges :
           update_document_metadata(<<"sha", c>>, [judge |-> judge], TRUE)
    \/ \E field \in {"court", "judge", "status"}, prefix \in {<<>>, Str(<<"jane">>, "T")},
          size \in 1..MaxSize, cluster \in {"ok", "unreachable"} :
           get_metadata_field_values(field, prefix, size, cluster)

SpecValues == Init /\ [][NextValues]_vars

\* the keys of the buckets the engine returns for the call, n asked for
EngineBuckets(call, n) ==
    TermsBuckets(store, AggField(call.field), PrefixDocs(store, AggField(call.field), call.prefix), n)

Sentinels == {<<>>, NullString, NoneString}

\* where a value stands in a list (0 when it is not in it)
PositionIn(l, v) == IF \E k \in DOMAIN l : l[k] = v THEN CHOOSE k \in DOMAIN l : l[k] = v ELSE 0

LoggedAs(outcome) == {k \in DOMAIN bulk.log : bulk.log[k].outcome = outcome}

\* the positions of the call in flight whose action the cluster applied
Applied == {k \in DOMAIN bulk.log : bulk.log[k].id # NoHash}

\* bulk_index_documents returns in this step
BulkReturns == bulk.pc = "chunks" /\ bulk'.pc = "idle"

\* C26 as stated: the counts returned add up to the length of the list, a
\* chunk that raised counts in full as errors, and success_count is the
\* number of documents of the list the call has stored.
C26_CountsConserved ==
    [][BulkReturns
          => /\ res'.success_count + res'.error_count = Len(bulk.actions)
             /\ res'.error_count = Cardinality(LoggedAs("rejected")) + Cardinality(LoggedAs("raised"))
             /\ res'.success_count = Cardinality(Applied)]_vars

\* C26, amended: the counts returned add up to the length of the list, a
\* chunk that raised counts in full as errors, and success_count is the
\* number of documents accepted in the chunks whose submission returned,
\* each of them stored; the cluster has applied at least that many actions,
\* those it applied of a chunk that raised being counted as errors.
C26_CountsAcknowledged ==
    [][BulkReturns
          => /\ res'.success_count + res'.error_count = Len(bulk.actions)
             /\ res'.error_count = Cardinality(LoggedAs("rejected")) + Cardinality(LoggedAs("raised"))
             /\ res'.success_count = Cardinality(LoggedAs("accepted"))
             /\ LoggedAs("accepted") \subseteq Applied
             /\ Applied \subseteq LoggedAs("accepted") \cup LoggedAs("raised")
             /\ res'.success_count <= Cardinality(Applied)]_vars

\* the loop is over; a chunk was accepted, and of a chunk that raised the
\* cluster has stored a document
C26_Witness ==
    /\ bulk.pc = "chunks" /\ bulk.i >= Len(bulk.actions)
    /\ LoggedAs("accepted") # {}
    /\ \E k \in LoggedAs("raised") : bulk.log[k].id \in Stored

\* C27: normalize applied to its own output gives that output back.
C27_NormalizeIdempotent ==
    res.op = "normalize" => normalize_court_name(res.out) = res.out

\* the main thread returns the stats of the run in this step
RunReturns == pool.pc # "idle" /\ pool'.pc = "idle"

\* the files of the run that came to the given end in process_file
Outcomes(key) == Cardinality({k \in DOMAIN pool.files : pool.outcome[k] = key})

\* C28: when a run of process_directory ends, under every interleaving of
\* its workers, stats.processed is the number of process_file calls that
\* returned a document, stats.skipped the number of files skipped and
\* stats.failed the number of failures counted: no increment is lost
C28_StatsExact ==
    [][RunReturns =>
          /\ res'.stats.processed = Outcomes("processed")
          /\ res'.stats.skipped = Outcomes("skipped")
          /\ res'.stats.failed = pool.failures]_vars

\* the positions waiting in the pending batch
Pending == {pool.documents_batch[j] : j \in DOMAIN pool.documents_batch}

\* while a run is on: a pending batch is shorter than batch_size and holds
\* each of its documents once, none of them handed over yet; no document is
\* handed over twice, and only documents a worker returned and the loop took
\* are handed over; the remainder is flushed after every future is taken
HandedOnce ==
    pool.pc # "idle" =>
       /\ Len(pool.documents_batch) < pool.batch_size
       /\ Cardinality(Pending) = Len(pool.documents_batch)
       /\ \A k \in DOMAIN pool.files :
             /\ pool.handed[k] <= 1
             /\ (pool.futures[k] = "taken" /\ pool.outcome[k] = "processed")
                   <=> (pool.handed[k] = 1 \/ k \in Pending)
             /\ ~(pool.handed[k] = 1 /\ k \in Pending)
       /\ pool.pc \in {"remaining", "remaining_counting"} =>
             \A k \in DOMAIN pool.files : pool.futures[k] = "taken"

\* when the run ends nothing is pending and every document returned has been
\* handed over
AllHanded ==
    /\ pool.documents_batch = <<>>
    /\ \A k \in DOMAIN pool.files :
          pool.handed[k] = IF pool.outcome[k] = "processed" THEN 1 ELSE 0

\* C29: every document a worker returns is handed to bulk_index_documents
\* exactly once: the batch is flushed and emptied as soon as it holds
\* batch_size documents, the remainder is flushed once after all workers
\* have completed, nothing is dropped or submitted twice, the batch is
\* empty when the run ends, and the run's stats.indexed is at most its
\* stats.processed
C29_EachDocumentHandedOnce ==
    [][/\ HandedOnce
       /\ RunReturns => (AllHanded /\ res'.stats.indexed <= res'.stats.processed)]_vars

\* the hand-over alone, with the documents indexed counted against the
\* documents the workers returned instead of the shared counter
HandOverExact ==
    [][/\ HandedOnce
       /\ RunReturns => (AllHanded /\ res'.stats.indexed <= Outcomes("processed"))]_vars

(***************************************************************************)
(* Classification: process_file classifies every file with the language    *)
(* model, the documents are indexed in bulk, and the index is searched by  *)
(* date range and by legal tags.                                           *)
(***************************************************************************)
\* process_document_llm on the text of content c: the classifier is a
\* function of the text; timestamp 0 and legal_tags <<>> stand for a date or
\* tags it did not find
process_document_llm(c) ==
    IF c = 1
    THEN [document_type |-> "Motion", subject |-> Str(<<"bail">>, "T"),
          status |-> StatusGranted, timestamp |-> 1, case_name |-> None,
          case_number |-> CaseNumberOne, legal_tags |-> <<TagArson, TagBail>>,
          author |-> None, judge |-> JudgeSmith, court |-> UpperKern]
    ELSE IF c = 2
    THEN [document_type |-> "Motion", subject |-> Str(<<"arson">>, "T"),
          status |-> None, timestamp |-> 0, case_name |-> None,
          case_number |-> None, legal_tags |-> <<TagBail>>,
          author |-> None, judge |-> None, court |-> None]
    ELSE [document_type |-> "unknown", subject |-> None,
          status |-> None, timestamp |-> 2, case_name |-> None,
          case_number |-> None, legal_tags |-> <<>>,
          author |-> None, judge |-> JudgeSmith, court |-> StateKern]

\* the Metadata object process_file builds from the classifier's result:
\* subject, status, case_name, case_number, author, judge and court are
\* passed to the constructor
ClassifiedMetadata(document_name, llm_result) ==
    [Metadata(document_name, llm_result.court) EXCEPT
        !.subject = llm_result.subject, !.status = llm_result.status,
        !.case_name = llm_result.case_name, !.case_number = llm_result.case_number,
        !.author = llm_result.author, !.judge = llm_result.judge]

\* the document process_file returns for the file in/a.pdf of content c
ClassifiedDoc(c) ==
    Document(<<"in", "a.pdf">>, TextOf(c),
             ClassifiedMetadata("a.pdf", process_document_llm(c)),
             process_document_llm(c).document_type, "PDF Document", <<"sha", c>>, 1)

\* the batches process_directory hands to bulk_index_documents
ClassifiedBatches ==
    {<<ClassifiedDoc(c)>> : c \in 1..NumCorpus}
        \cup {<<ClassifiedDoc(a), ClassifiedDoc(b)>> : a, b \in 1..NumCorpus}

\* searches by the legal date of one day, and by legal tags
ClassifiedRequests ==
    {DateRequest([start |-> d, end |-> d]) : d \in 1..MaxDay}
        \cup {TagsRequest(FALSE, <<>>, <<>>)}

NextClassified ==
    \/ \E documents \in ClassifiedBatches, chunk_size \in 1..MaxChunk :
           bulk_start(documents, chunk_size)
    \/ \E raised \in BOOLEAN, rejected, applied \in SUBSET (1..MaxChunk) :
           bulk_chunk(raised, rejected, applied)
    \/ bulk_return
    \/ \E rq \in ClassifiedRequests : search_documents(rq, "ok")

SpecClassified == Init /\ [][NextClassified]_vars

\* the stored metadata carries what the classifier found for content c
CarriesResult(metadata, llm_result) ==
    /\ metadata.timestamp = IF llm_result.timestamp # 0 THEN IsoFormat(llm_result.timestamp)
                            ELSE NoTime
    /\ Get(metadata, "legal_tags", <<>>) = llm_result.legal_tags
    /\ metadata.subject = llm_result.subject
    /\ metadata.status = llm_result.status
    /\ metadata.case_name = llm_result.case_name
    /\ metadata.case_number = llm_result.case_number
    /\ metadata.author = llm_result.author
    /\ metadata.judge = llm_result.judge
    /\ metadata.court = IF Truthy(llm_result.court) THEN normalize_court_name(llm_result.court)
                        ELSE llm_result.court

\* the contents whose document a search by the request has to find, going
\* by the classifier's result: dated on the day asked for, or carrying one
\* of the tags asked for
Expected(rq, c) ==
    IF rq.date_range # <<>>
    THEN process_document_llm(c).timestamp = rq.date_range.start
    ELSE \E k \in DOMAIN process_document_llm(c).legal_tags :
            process_document_llm(c).legal_tags[k] \in {TagArson, TagBail}

\* C30: the document stored for a file that process_file classified carries
\* the classifier's timestamp (null when it found none) and legal_tags with
\* its subject, status, case_name, case_number, author, judge and court,
\* and a search by date range or by legal tags finds it
C30_ClassificationStored ==
    /\ \A c \in 1..NumCorpus :
          <<"sha", c>> \in DOMAIN store =>
             CarriesResult(store[<<"sha", c>>].metadata, process_document_llm(c))
    /\ (res.op = "search" /\ res.rq \in ClassifiedRequests) =>
          \A c \in 1..NumCorpus :
             (<<"sha", c>> \in DOMAIN store /\ Expected(res.rq, c))
                => <<"sha", c>> \in HitIds(res.response)

=============================================================================
